---- MODULE Spec2Model ----
(***************************************************************************)
(* HealthJobsPH backend: the request pipeline (authenticateJWT, the        *)
(* controllers, the resource services, the terminal errorHandler) over the *)
(* Supabase row store.  One request is a sequence of steps; a step is the  *)
(* code between two awaits, so concurrent requests interleave only at      *)
(* persistence calls, as on the Node event loop.                           *)
(***************************************************************************)
EXTENDS Integers, Sequences, FiniteSets, TLC

VARIABLES
  nodeEnv,     \* process.env.NODE_ENV ("" when unset)
  jwtSecret,   \* process.env.SUPABASE_JWT_SECRET is configured
  db,          \* the row store: table name -> set of rows
  nextId,      \* the store's next server-assigned row id
  reqs,        \* request slot -> the request being handled there
  started      \* number of requests received so far

vars == <<nodeEnv, jwtSecret, db, nextId, reqs, started>>

(***************************************************************************)
(* Bounds of the model.                                                    *)
(***************************************************************************)
MaxRequests == 2     \* requests received in one run
MaxHeaderLen == 3    \* symbols in an Authorization header value
Headroom == 1        \* rows an owner may still add to a capped table at start

Slots == {1, 2}
Users == {"u1", "u2"}
NoUser == "none"
NoToken == "none"

(***************************************************************************)
(* Program constants.                                                      *)
(***************************************************************************)
MAX_EDUCATION_ENTRIES == 10
MAX_CERTIFICATION_ENTRIES == 20
MAX_EXPERIENCE_ENTRIES == 10

(***************************************************************************)
(* lib/errors: the AppError classes, as {name, statusCode, code}.          *)
(***************************************************************************)
NotFoundError == [name |-> "NotFoundError", statusCode |-> 404, code |-> "NOT_FOUND"]
ValidationError == [name |-> "ValidationError", statusCode |-> 400, code |-> "VALIDATION_ERROR"]
UnauthorizedError == [name |-> "UnauthorizedError", statusCode |-> 401, code |-> "UNAUTHORIZED"]
ForbiddenError == [name |-> "ForbiddenError", statusCode |-> 403, code |-> "FORBIDDEN"]
ConflictError == [name |-> "ConflictError", statusCode |-> 409, code |-> "CONFLICT"]
DatabaseError == [name |-> "DatabaseError", statusCode |-> 500, code |-> "DATABASE_ERROR"]
BadRequestError == [name |-> "BadRequestError", statusCode |-> 400, code |-> "BAD_REQUEST"]

(***************************************************************************)
(* lib/supabase-errors: the error table and mapSupabaseError.              *)
(***************************************************************************)
NoError == "ok"
POSTGRES_ERROR_CODES ==
  [c \in {"23505", "23503", "23502", "23514", "42501", "42P01"} |->
     CASE c = "23505" -> [message |-> "A record with this value already exists", statusCode |-> 409]
       [] c = "23503" -> [message |-> "Referenced record does not exist", statusCode |-> 400]
       [] c = "23502" -> [message |-> "A required field is missing", statusCode |-> 400]
       [] c = "23514" -> [message |-> "Value does not meet requirements", statusCode |-> 400]
       [] c = "42501" -> [message |-> "You do not have permission to perform this action", statusCode |-> 403]
       [] c = "42P01" -> [message |-> "Access denied", statusCode |-> 403]]

POSTGREST_ERROR_CODES ==
  [c \in {"PGRST116", "PGRST102", "PGRST301", "PGRST302"} |->
     CASE c = "PGRST116" -> [message |-> "Record not found", statusCode |-> 404]
       [] c = "PGRST102" -> [message |-> "Multiple records found", statusCode |-> 409]
       [] c = "PGRST301" -> [message |-> "Authentication failed", statusCode |-> 401]
       [] c = "PGRST302" -> [message |-> "Invalid authentication token", statusCode |-> 401]]

\* The codes the store is let to answer a failed call with; "XX000" stands for
\* any code the tables do not list, with a message that names no rows.
ErrCodes == {"23505", "42501", "XX000"}

\* An error object of the store client: code ("" when the field is absent or
\* empty, which error.code || '' makes alike), message and details.  A text
\* is a sequence of words, and includes is the substring test on it.
includes(text, words) ==
  \E i \in 1..(Len(text) - Len(words) + 1) : SubSeq(text, i, i + Len(words) - 1) = words

\* The faults the store answers a call with in the request models carry a
\* code and a text that names no rows.
StoreError(code) == [code |-> code, message |-> <<>>, details |-> <<>>]

\* The tables are plain object literals, so a code that names a property of
\* Object.prototype indexes to that inherited value, which is truthy and no
\* ErrorMapping: it has neither message nor statusCode.
ObjectPrototypeKeys == {"constructor"}
InheritedValue(code) == [inherited |-> code]

Index(table, code) ==
  IF code \in DOMAIN table THEN table[code] ELSE InheritedValue(code)

Truthy(table, code) == code \in DOMAIN table \/ code \in ObjectPrototypeKeys

mentionsNoRowsNever(error) == FALSE

mentionsNoRows(error) ==
  \/ includes(error.message, <<"rows", "returned">>)
  \/ includes(error.details, <<"0", "rows">>)

mapSupabaseError(error) ==
  LET code == error.code IN
  IF Truthy(POSTGRES_ERROR_CODES, code) THEN Index(POSTGRES_ERROR_CODES, code)
  ELSE IF Truthy(POSTGREST_ERROR_CODES, code) THEN Index(POSTGREST_ERROR_CODES, code)
  ELSE IF mentionsNoRows(error) THEN [message |-> "Record not found", statusCode |-> 404]
  ELSE [message |-> "An unexpected error occurred", statusCode |-> 500]

(***************************************************************************)
(* The Authorization header.  A header value is a sequence of symbols: the *)
(* word Bearer, a space, or a JWT.  The HTTP parser                        *)
(* strips leading and trailing whitespace of a field value, so no value    *)
(* starts or ends with a space.                                            *)
(***************************************************************************)
SP == " "
JwtNames == {"jwt_u1", "jwt_u2", "jwt_expired", "jwt_badsig"}
Sym == {"Bearer", SP, "jwt_u1", "jwt_expired", "jwt_badsig"}

\* What each JWT of the model carries: its subject, whether its signature
\* verifies under the shared secret, and whether its exp lies in the past.
JwtOf(t) ==
  CASE t = "jwt_u1" -> [sub |-> "u1", sigOk |-> TRUE, expired |-> FALSE]
    [] t = "jwt_u2" -> [sub |-> "u2", sigOk |-> TRUE, expired |-> FALSE]
    [] t = "jwt_expired" -> [sub |-> "u1", sigOk |-> TRUE, expired |-> TRUE]
    [] t = "jwt_badsig" -> [sub |-> "u1", sigOk |-> FALSE, expired |-> TRUE]

SeqsUpTo(S, n) == UNION {[1..k -> S] : k \in 0..n}

HeaderValues ==
  {h \in SeqsUpTo(Sym, MaxHeaderLen) : Len(h) > 0 => (h[1] # SP /\ h[Len(h)] # SP)}

NoHeader == [present |-> FALSE, value |-> <<>>]
Headers == {NoHeader} \cup {[present |-> TRUE, value |-> h] : h \in HeaderValues}

BearerOf(t) == [present |-> TRUE, value |-> <<"Bearer", SP, t>>]

\* String.prototype.split(' ')
RECURSIVE Split(_)
Split(h) ==
  IF \A i \in 1..Len(h) : h[i] # SP
  THEN <<h>>
  ELSE LET i == CHOOSE k \in 1..Len(h) : h[k] = SP /\ \A j \in 1..(k - 1) : h[j] # SP
       IN <<SubSeq(h, 1, i - 1)>> \o Split(SubSeq(h, i + 1, Len(h)))

\* jwt.verify(token, secret): the signature is checked before the expiry;
\* TokenExpiredError is a subclass of JsonWebTokenError.
jwtVerify(token) ==
  IF Len(token) # 1 \/ token[1] \notin JwtNames
  THEN [threw |-> "JsonWebTokenError", classes |-> {"JsonWebTokenError"}, sub |-> NoUser]
  ELSE LET j == JwtOf(token[1]) IN
       IF ~j.sigOk
       THEN [threw |-> "JsonWebTokenError", classes |-> {"JsonWebTokenError"}, sub |-> NoUser]
       ELSE IF j.expired
       THEN [threw |-> "TokenExpiredError",
             classes |-> {"TokenExpiredError", "JsonWebTokenError"}, sub |-> NoUser]
       ELSE [threw |-> "", classes |-> {}, sub |-> j.sub]

(***************************************************************************)
(* Responses: {sent, status, success, error, code, message}.               *)
(***************************************************************************)
NoResp == [sent |-> FALSE, status |-> 0, success |-> FALSE, error |-> "", code |-> "", message |-> ""]

Json(status, success, error, code, message) ==
  [sent |-> TRUE, status |-> status, success |-> success, error |-> error,
   code |-> code, message |-> message]

\* errorHandler, for an AppError: status and code are the error's own.
errorHandler(e, message) == Json(e.statusCode, FALSE, e.name, e.code, message)

\* authenticateJWT with the return after each res.json left out: control is
\* handed on whatever was sent.
AuthResultFallsThrough(resp, user, token, nextCalled) ==
  [resp |-> resp, user |-> user, accessToken |-> token, nextCalled |-> TRUE]

\* What authenticateJWT leaves behind: the response it sent, or the identity
\* and raw token it attached before calling next().
AuthResult(resp, user, token, nextCalled) ==
  [resp |-> resp, user |-> user, accessToken |-> token, nextCalled |-> nextCalled]

\* The catch block with the superclass tested first.
catchOrderSwapped(v) ==
  IF "JsonWebTokenError" \in v.classes
  THEN Json(401, FALSE, "Unauthorized", "INVALID_TOKEN", "Invalid token")
  ELSE IF "TokenExpiredError" \in v.classes
  THEN Json(401, FALSE, "Unauthorized", "TOKEN_EXPIRED", "Token has expired")
  ELSE Json(500, FALSE, "Internal Server Error", "", "Failed to authenticate")

\* The catch block of authenticateJWT.
authCatch(v) ==
  IF "TokenExpiredError" \in v.classes
  THEN Json(401, FALSE, "Unauthorized", "TOKEN_EXPIRED", "Token has expired")
  ELSE IF "JsonWebTokenError" \in v.classes
  THEN Json(401, FALSE, "Unauthorized", "INVALID_TOKEN", "Invalid token")
  ELSE Json(500, FALSE, "Internal Server Error", "", "Failed to authenticate")

\* The shape test without the comparison of the scheme word.
headerShapeOkAnyScheme(parts) == Len(parts) = 2

\* parts.length !== 2 || parts[0] !== 'Bearer', negated
headerShapeOk(parts) == Len(parts) = 2 /\ parts[1] = <<"Bearer">>

\* The test of the secret left out.
secretMissingNever(secret) == FALSE

\* if (!jwtSecret)
secretMissing(secret) == ~secret

authenticateJWT(header, secret) ==
  IF ~header.present \/ header.value = <<>>
  THEN AuthResult(Json(401, FALSE, "Unauthorized", "", "No authorization header provided"),
                  NoUser, NoToken, FALSE)
  ELSE LET parts == Split(header.value) IN
    IF ~headerShapeOk(parts)
    THEN AuthResult(Json(401, FALSE, "Unauthorized", "", "Invalid authorization header format. Expected: Bearer <token>"),
                    NoUser, NoToken, FALSE)
    ELSE IF secretMissing(secret)
    THEN AuthResult(Json(500, FALSE, "Server Configuration Error", "",
                         "Authentication is not properly configured"),
                    NoUser, NoToken, FALSE)
    ELSE LET v == jwtVerify(parts[2]) IN
      IF v.threw # ""
      THEN AuthResult(authCatch(v), NoUser, NoToken, FALSE)
      ELSE AuthResult(NoResp, v.sub, parts[2][1], TRUE)

(***************************************************************************)
(* Requests.  op = {res, act}: the resource and the operation of the route.*)
(***************************************************************************)
Kinds == {"education", "experience", "certification"}
ProfileKinds == {"job_seeker", "employer"}

Op(res, act) == [res |-> res, act |-> act]
NoOp == Op("", "")

CappedOps == {Op(k, a) : k \in Kinds, a \in {"create", "update", "delete"}}

\* The table a resource's rows live in.
TableOf(res) ==
  CASE res = "education" -> "job_seeker_education"
    [] res = "experience" -> "job_seeker_work_history"
    [] res = "certification" -> "job_seeker_certifications"
    [] res = "document" -> "profile_documents"
    [] res = "saved_job" -> "saved_jobs"
    [] res = "application" -> "applications"
    [] res = "job" -> "jobs"
    [] res = "job_seeker" -> "job_seekers"
    [] res = "employer" -> "employers"

\* The tables of the store.
ChildTables == {"job_requirements", "job_benefits", "job_tags"}

Tables == {"job_seekers", "employers", "job_seeker_education", "job_seeker_work_history",
           "job_seeker_certifications", "profile_documents", "saved_jobs",
           "applications", "jobs", "profile_views"} \cup ChildTables

EmptyDb == [t \in Tables |-> {}]

\* The table getJobSeekerProfileId / getEmployerProfileId reads for a resource.
ProfileTableOf(res) == IF res = "job" THEN "employers" ELSE "job_seekers"

Cap(kind) ==
  CASE kind = "education" -> MAX_EDUCATION_ENTRIES
    [] kind = "experience" -> MAX_EXPERIENCE_ENTRIES
    [] kind = "certification" -> MAX_CERTIFICATION_ENTRIES

IdleReq ==
  [pc |-> "idle", op |-> NoOp, header |-> NoHeader, valid |-> TRUE, target |-> 0,
   val |-> "", kids |-> <<>>, user |-> NoUser, accessToken |-> NoToken,
   nextCalled |-> FALSE, controllerRan |-> FALSE, ownerId |-> 0, readErr |-> FALSE,
   error |-> NoError, calls |-> <<>>, got |-> <<>>, resp |-> NoResp]

\* got: what the reads of the request have answered so far, {failed, rows} each.
Respond(r, resp) == [r EXCEPT !.pc = "done", !.resp = resp]

\* throw in a service or controller: the controller's catch hands the error to
\* next(error), and errorHandler answers.
Throw(r, e, message) == Respond(r, errorHandler(e, message))

Ok(r, status) == Respond(r, Json(status, TRUE, "", "", ""))

\* A persistence call issued through the client made from the request's token
\* (createUserClient), or through the service-role client (createServiceClient).
Call(r, verb, table) == [r EXCEPT !.calls = Append(@, <<verb, table, r.accessToken>>)]
ServiceCall(r, verb, table) == [r EXCEPT !.calls = Append(@, <<verb, table, "service">>)]

\* A read of the store answered with outcome f.
Read(r, f) == [r EXCEPT !.readErr = @ \/ f # NoError]

Put(s, r) == reqs' = [reqs EXCEPT ![s] = r]

\* The request keeps what a store call has answered.
Remember(r, g) == [r EXCEPT !.got = Append(@, g)]

\* Outcomes of a store call: the faithful answer, or an error of the store.
ReadFaults == {NoError, "PGRST301"}
WriteFaults == {NoError} \cup ErrCodes

\* A controller that validates nothing.
HasValidationNever(op) == FALSE

\* The routes whose controller validates the body against a schema.
HasValidation(op) ==
  \/ op.res \in Kinds \cup {"job", "application", "saved_job", "job_seeker", "employer"}
     /\ op.act \in {"create", "update"}
  \/ op.res = "document" /\ op.act = "create"

\* The error a controller throws for a body its check refuses.
InvalidBodyError(op) == IF op.res = "document" THEN BadRequestError ELSE ValidationError

\* The first await of each service operation.
FirstStep(op) ==
  CASE op.res = "document" /\ op.act = "list" -> "doc_list"
    [] op.res \in ProfileKinds /\ op.act = "get" -> "profile_get"
    [] op.res \in Kinds /\ op.act \in {"create", "list"} -> "resolve"
    [] op.res \in Kinds /\ op.act \in {"update", "delete"} -> "write"
    [] op.res \in ProfileKinds /\ op.act \in {"update", "delete"} -> "existing"
    [] op.res \in ProfileKinds /\ op.act = "create" -> "lookup"
    [] op.res = "dashboard" -> "dash_owner"
    [] op.res = "application" /\ op.act \in {"update", "delete"} -> "verify"
    [] OTHER -> "resolve"

\* A request is handled in the first slot that holds no request in flight.
FreeSlots == {s \in Slots : reqs[s].pc \in {"idle", "done"}}
FreeSlot == IF FreeSlots = {} THEN 0 ELSE CHOOSE s \in FreeSlots : \A x \in FreeSlots : s <= x

(***************************************************************************)
(* A request arrives at a protected route: authenticateJWT, then the       *)
(* controller up to the first await of the service it calls.               *)
(***************************************************************************)
Arrive(s, op, header, valid, target, kids) ==
  /\ s = FreeSlot
  /\ started < MaxRequests
  /\ started' = started + 1
  /\ LET a == authenticateJWT(header, jwtSecret)
         r0 == [IdleReq EXCEPT !.op = op, !.header = header, !.valid = valid,
                               !.target = target, !.val = "v1", !.kids = kids,
                               !.user = a.user, !.accessToken = a.accessToken,
                               !.nextCalled = a.nextCalled]
         r1 == [r0 EXCEPT !.controllerRan = TRUE]
     IN IF ~a.nextCalled
        THEN Put(s, Respond(r0, a.resp))
        ELSE IF r1.user = NoUser \/ r1.accessToken = NoToken
        THEN Put(s, Throw(r1, UnauthorizedError, "Authentication required"))
        ELSE IF HasValidation(op) /\ ~valid
        THEN Put(s, Throw(r1, InvalidBodyError(op), "Invalid data"))
        ELSE Put(s, [r1 EXCEPT !.pc = FirstStep(op)])
  /\ UNCHANGED <<nodeEnv, jwtSecret, db, nextId>>

(***************************************************************************)
(* getJobSeekerProfileId / getEmployerProfileId: one keyed lookup,         *)
(* .eq('user_id', userId).single().                                        *)
(***************************************************************************)
AfterResolve(op) ==
  CASE op.res \in Kinds /\ op.act = "list" -> "list"
    [] op.res \in Kinds /\ op.act # "list" -> "count"
    [] op.res = "job" /\ op.act \in {"update", "delete"} -> "fetch"
    [] op.res \in {"saved_job", "application"} -> "dupcheck"
    [] OTHER -> "insert"

\* The lookup test that looks at the data only, not at the error.
ownerLookupFailsIgnoringError(f, rows) == Cardinality(rows) # 1

\* if (error || !data): .single() yields an error unless exactly one row matches.
ownerLookupFails(f, rows) == f # NoError \/ Cardinality(rows) # 1

ResolveOwner(s) ==
  /\ reqs[s].pc = "resolve"
  /\ \E f \in ReadFaults :
       LET r == Read(Call(reqs[s], "select", ProfileTableOf(reqs[s].op.res)), f)
           rows == {p \in db[ProfileTableOf(r.op.res)] : p.user_id = r.user}
       IN IF ownerLookupFails(f, rows)
          THEN Put(s, Throw(r, NotFoundError, "profile not found"))
          ELSE Put(s, [r EXCEPT !.ownerId = (CHOOSE p \in rows : TRUE).id,
                                !.pc = AfterResolve(r.op)])
  /\ UNCHANGED <<nodeEnv, jwtSecret, db, nextId, started>>

(***************************************************************************)
(* Education / Experience / Certification services.                        *)
(***************************************************************************)
\* The read without .eq('job_seeker_id', jobSeekerId).
getByJobSeekerIdUnscoped(table, jobSeekerId, f) ==
  IF f # NoError THEN {} ELSE db[table]

\* getByJobSeekerId: the owner's rows, or [] when the read fails.
getByJobSeekerId(table, jobSeekerId, f) ==
  IF f # NoError THEN {} ELSE {x \in db[table] : x.job_seeker_id = jobSeekerId}

\* create, from the limit check to the insert.
CountCheck(s) ==
  /\ reqs[s].pc = "count"
  /\ \E f \in ReadFaults :
       LET r == Read(Call(reqs[s], "select", TableOf(reqs[s].op.res)), f)
           existing == getByJobSeekerId(TableOf(r.op.res), r.ownerId, f)
       IN IF Cardinality(existing) >= Cap(r.op.res)
          THEN Put(s, Throw(r, DatabaseError, "Maximum entries allowed"))
          ELSE Put(s, [r EXCEPT !.pc = "insert"])
  /\ UNCHANGED <<nodeEnv, jwtSecret, db, nextId, started>>

\* The row a create inserts.
NewRow(r) ==
  CASE r.op.res \in Kinds -> [id |-> nextId, job_seeker_id |-> r.ownerId, data |-> r.val]
    [] r.op.res \in ProfileKinds -> [id |-> nextId, user_id |-> r.user, data |-> r.val]
    [] r.op.res = "document" ->
         [id |-> nextId, user_id |-> r.user, job_seeker_id |-> r.ownerId, data |-> r.val]
    [] r.op.res = "saved_job" -> [id |-> nextId, job_seeker_id |-> r.ownerId, job_id |-> r.target]
    [] r.op.res = "application" ->
         [id |-> nextId, job_id |-> r.target, job_seeker_id |-> r.ownerId,
          status |-> "applied", data |-> r.val]
    [] r.op.res = "job" ->
         [id |-> nextId, employer_id |-> r.ownerId, status |-> "active", data |-> r.val]

\* What a create does once its primary insert has succeeded: JobService.create
\* goes on to the child tables and the final fetch, every other create answers.
AfterInsert(r) ==
  IF r.op.res = "job"
  THEN LET given == SelectSeq(r.kids, LAMBDA k : k.items # <<>>)
       IN [r EXCEPT !.target = nextId, !.kids = given,
                    !.pc = IF given = <<>> THEN "refetch" ELSE "kid_insert"]
  ELSE Ok(r, 201)

\* The error a failed primary insert is thrown as: ApplicationService.create
\* answers a unique violation with ConflictError, all else is DatabaseError.
InsertError(op, f) ==
  IF op.res = "application" /\ f = "23505" THEN ConflictError ELSE DatabaseError

\* ProfileService.create goes through the store procedure create_job_seeker_profile;
\* every other create is a plain insert.
InsertVerb(op) == IF op.res = "job_seeker" THEN "rpc" ELSE "insert"

\* The primary insert of a create: on an error the service throws
\* DatabaseError(mapped.message).
Insert(s) ==
  /\ reqs[s].pc = "insert"
  /\ \E f \in WriteFaults :
       LET r == Call(reqs[s], InsertVerb(reqs[s].op), TableOf(reqs[s].op.res))
           t == TableOf(r.op.res)
       IN IF f # NoError
          THEN /\ Put(s, Throw([r EXCEPT !.error = f], InsertError(r.op, f),
                               mapSupabaseError(StoreError(f)).message))
               /\ UNCHANGED <<db, nextId>>
          ELSE /\ db' = [db EXCEPT ![t] = @ \cup {NewRow(r)}]
               /\ nextId' = nextId + 1
               /\ Put(s, AfterInsert(r))
  /\ UNCHANGED <<nodeEnv, jwtSecret, started>>

\* update: .update(data).eq('id', id).select().single(); delete: .delete().eq('id', id).
\* Neither resolves the caller's profile nor compares it with the row's owner.
CappedWrite(s) ==
  /\ reqs[s].pc = "write"
  /\ reqs[s].op.res \in Kinds
  /\ \E f \in WriteFaults :
       LET r == Call(reqs[s], reqs[s].op.act, TableOf(reqs[s].op.res))
           t == TableOf(r.op.res)
           hit == {x \in db[t] : x.id = r.target}
       IN IF f # NoError
          THEN /\ Put(s, Throw([r EXCEPT !.error = f], DatabaseError, mapSupabaseError(StoreError(f)).message))
               /\ UNCHANGED db
          ELSE IF r.op.act = "delete"
          THEN /\ db' = [db EXCEPT ![t] = @ \ hit]
               /\ Put(s, Ok(r, 200))
          ELSE IF hit = {}
          THEN /\ Put(s, Throw([r EXCEPT !.error = "PGRST116"], DatabaseError,
                               mapSupabaseError(StoreError("PGRST116")).message))
               /\ UNCHANGED db
          ELSE /\ db' = [db EXCEPT ![t] = (@ \ hit) \cup {[x EXCEPT !.data = r.val] : x \in hit}]
               /\ Put(s, Ok(r, 200))
  /\ UNCHANGED <<nodeEnv, jwtSecret, nextId, started>>

(***************************************************************************)
(* SavedJobService.save / ApplicationService.create: the checks between    *)
(* the owner resolution and the insert.                                    *)
(***************************************************************************)
\* "Check if already saved / applied": the error of the read is not looked at.
DupCheck(s) ==
  /\ reqs[s].pc = "dupcheck"
  /\ \E f \in ReadFaults :
       LET r == Read(Call(reqs[s], "select", TableOf(reqs[s].op.res)), f)
           rows == {x \in db[TableOf(r.op.res)] :
                      x.job_seeker_id = r.ownerId /\ x.job_id = r.target}
           existing == IF f # NoError \/ Cardinality(rows) # 1 THEN {} ELSE rows
       IN IF existing # {}
          THEN Put(s, Throw(r, ConflictError, "already exists"))
          ELSE Put(s, [r EXCEPT !.pc = IF r.op.res = "application" THEN "jobcheck" ELSE "insert"])
  /\ UNCHANGED <<nodeEnv, jwtSecret, db, nextId, started>>

\* "Verify job exists and is active".
JobCheck(s) ==
  /\ reqs[s].pc = "jobcheck"
  /\ \E f \in ReadFaults :
       LET r == Read(Call(reqs[s], "select", "jobs"), f)
           rows == {j \in db["jobs"] : j.id = r.target}
       IN IF f # NoError \/ Cardinality(rows) # 1
          THEN Put(s, Throw(r, NotFoundError, "Job not found"))
          ELSE IF (CHOOSE j \in rows : TRUE).status # "active"
          THEN Put(s, Throw(r, ForbiddenError, "This job is no longer accepting applications"))
          ELSE Put(s, [r EXCEPT !.pc = "insert"])
  /\ UNCHANGED <<nodeEnv, jwtSecret, db, nextId, started>>

(***************************************************************************)
(* JobService: update and delete, and the child tables of a job.           *)
(***************************************************************************)
\* getById: through the service-role client; null ({} here) on any error.
getById(jobId, f) ==
  LET rows == {j \in db["jobs"] : j.id = jobId}
  IN IF f # NoError \/ Cardinality(rows) # 1 THEN {} ELSE rows

\* The ownership test left out.
ownsJobAlways(existing, employerId) == TRUE

\* existing.employer_id !== employerId, negated
ownsJob(existing, employerId) == existing.employer_id = employerId

\* "Verify ownership": the fetch by id and the comparison.
JobFetch(s) ==
  /\ reqs[s].pc = "fetch"
  /\ \E f \in ReadFaults :
       LET r == Read(ServiceCall(reqs[s], "select", "jobs"), f)
           existing == getById(r.target, f)
       IN IF existing = {}
          THEN Put(s, Throw(r, NotFoundError, "Job not found"))
          ELSE IF ~ownsJob(CHOOSE j \in existing : TRUE, r.ownerId)
          THEN Put(s, Throw(r, ForbiddenError, "You do not have permission"))
          ELSE Put(s, [r EXCEPT !.pc = "jobwrite"])
  /\ UNCHANGED <<nodeEnv, jwtSecret, db, nextId, started>>

\* The rows of the child tables that hang on the given jobs.
Orphaned(table, jobIds) == {x \in db[table] : x.job_id \in jobIds}

\* The write on jobs, .eq('id', jobId).eq('employer_id', employerId).  A delete
\* cascades to requirements, benefits and tags through the foreign keys.
JobWrite(s) ==
  /\ reqs[s].pc = "jobwrite"
  /\ \E f \in WriteFaults :
       LET r == Call(reqs[s], reqs[s].op.act, "jobs")
           hit == {j \in db["jobs"] : j.id = r.target /\ j.employer_id = r.ownerId}
           ids == {j.id : j \in hit}
       IN IF f # NoError
          THEN /\ Put(s, Throw([r EXCEPT !.error = f], DatabaseError, mapSupabaseError(StoreError(f)).message))
               /\ UNCHANGED db
          ELSE IF r.op.act = "delete"
          THEN /\ db' = [t \in Tables |->
                          IF t = "jobs" THEN db[t] \ hit
                          ELSE IF t \in ChildTables THEN db[t] \ Orphaned(t, ids)
                          ELSE db[t]]
               /\ Put(s, Ok(r, 200))
          ELSE IF hit = {}
          THEN /\ Put(s, Throw([r EXCEPT !.error = "PGRST116"], DatabaseError,
                               mapSupabaseError(StoreError("PGRST116")).message))
               /\ UNCHANGED db
          ELSE /\ db' = [db EXCEPT !["jobs"] = (@ \ hit) \cup {[j EXCEPT !.data = r.val] : j \in hit}]
               /\ Put(s, [r EXCEPT !.pc = IF r.kids = <<>> THEN "refetch" ELSE "kid_delete"])
  /\ UNCHANGED <<nodeEnv, jwtSecret, nextId, started>>

\* A child list of a job payload: the table it goes to and its items, each a
\* text (a sequence of symbols, SP among them).
Kid(table, items) == [table |-> table, items |-> items]

RECURSIVE TrimStart(_)
TrimStart(x) == IF x # <<>> /\ Head(x) = SP THEN TrimStart(Tail(x)) ELSE x

RECURSIVE TrimEnd(_)
TrimEnd(x) == IF x # <<>> /\ x[Len(x)] = SP THEN TrimEnd(SubSeq(x, 1, Len(x) - 1)) ELSE x

trimNothing(x) == x

\* String.prototype.trim
trim(x) == TrimEnd(TrimStart(x))

\* requirements.map((req) => ({ job_id: jobId, requirement: req.trim() }))
KidRows(jobId, items) == {[job_id |-> jobId, data |-> trim(items[i])] : i \in 1..Len(items)}

\* The child write whose error ends the request.
childErrorThrown(r, f) ==
  IF f # NoError THEN Throw(r, DatabaseError, mapSupabaseError(StoreError(f)).message) ELSE r

\* if (reqError) { console.error(...) }; update does not look at the result.
childErrorLogged(r, f) == r

\* update: delete the job's rows of the next child table, then insert its
\* items if (requirements.length > 0).
KidDelete(s) ==
  /\ reqs[s].pc = "kid_delete"
  /\ \E f \in WriteFaults :
       LET kid == Head(reqs[s].kids)
           t == kid.table
           r == Call(reqs[s], "delete", t)
           rest == Tail(r.kids)
       IN /\ db' = IF f # NoError THEN db ELSE [db EXCEPT ![t] = @ \ Orphaned(t, {r.target})]
          /\ Put(s, childErrorLogged(
                      IF kid.items # <<>> THEN [r EXCEPT !.pc = "kid_insert"]
                      ELSE [r EXCEPT !.kids = rest,
                                     !.pc = IF rest = <<>> THEN "refetch" ELSE "kid_delete"], f))
  /\ UNCHANGED <<nodeEnv, jwtSecret, nextId, started>>

\* create and update: insert the rows of the next child list.
KidInsert(s) ==
  /\ reqs[s].pc = "kid_insert"
  /\ \E f \in WriteFaults :
       LET kid == Head(reqs[s].kids)
           t == kid.table
           rows == KidRows(reqs[s].target, kid.items)
           r == Call(reqs[s], "insert", t)
           rest == Tail(r.kids)
       IN /\ db' = IF f # NoError THEN db ELSE [db EXCEPT ![t] = @ \cup rows]
          /\ Put(s, childErrorLogged(
                      [r EXCEPT !.kids = rest,
                                !.pc = IF rest = <<>> THEN "refetch"
                                       ELSE IF r.op.act = "update" THEN "kid_delete"
                                       ELSE "kid_insert"], f))
  /\ UNCHANGED <<nodeEnv, jwtSecret, nextId, started>>

\* "Fetch updated job with related data": return updatedJob || data.
Refetch(s) ==
  /\ reqs[s].pc = "refetch"
  /\ \E f \in ReadFaults :
       LET r == Read(ServiceCall(reqs[s], "select", "jobs"), f)
       IN Put(s, Ok(r, IF r.op.act = "create" THEN 201 ELSE 200))
  /\ UNCHANGED <<nodeEnv, jwtSecret, db, nextId, started>>

(***************************************************************************)
(* ProfileService / EmployerService.                                       *)
(***************************************************************************)
\* The lookup without .eq('user_id', userId): any one row of the table.
getByUserIdOfAnyone(table, userId, f) ==
  IF f # NoError \/ db[table] = {} THEN {}
  ELSE {CHOOSE p \in db[table] : \A q \in db[table] : p.id >= q.id}

\* getByUserId: .eq('user_id', userId).single().  The profile row, or null
\* ({} here) when the read fails or does not yield exactly one row.
getByUserId(table, userId, f) ==
  LET rows == {p \in db[table] : p.user_id = userId}
  IN IF f # NoError \/ Cardinality(rows) # 1 THEN {} ELSE rows

\* create, up to the insert: the existence check.
ProfileLookup(s) ==
  /\ reqs[s].pc = "lookup"
  /\ \E f \in ReadFaults :
       LET r == Read(Call(reqs[s], "select", TableOf(reqs[s].op.res)), f)
           existing == getByUserId(TableOf(r.op.res), r.user, f)
       IN IF existing # {}
          THEN Put(s, Throw(r, ConflictError, "Profile already exists"))
          ELSE Put(s, [r EXCEPT !.pc = "insert"])
  /\ UNCHANGED <<nodeEnv, jwtSecret, db, nextId, started>>

(***************************************************************************)
(* Initial states.                                                         *)
(***************************************************************************)
Profile(id, user) == [id |-> id, user_id |-> user, data |-> "v0"]

\* Owner 1 already holds all but Headroom of the rows a capped table allows.
Prefilled(kind) ==
  {[id |-> i, job_seeker_id |-> 1, data |-> "v0"] : i \in 1..(Cap(kind) - Headroom)}

ValidHeaders == {BearerOf("jwt_u1"), BearerOf("jwt_u2")}
TargetIds == {0, 1}

InitCommon ==
  /\ nodeEnv = "production"
  /\ reqs = [s \in Slots |-> IdleReq]
  /\ started = 0
  /\ nextId = 100

\* Capped resources: u1 owns profile 1 and its rows; u2 owns profile 2.
InitCapped ==
  /\ InitCommon
  /\ jwtSecret = TRUE
  /\ db = [EmptyDb EXCEPT
             !["job_seekers"] = {Profile(1, "u1"), Profile(2, "u2")},
             !["job_seeker_education"] = Prefilled("education"),
             !["job_seeker_work_history"] = Prefilled("experience"),
             !["job_seeker_certifications"] = Prefilled("certification")]

NextCapped ==
  \E s \in Slots :
    \/ \E op \in CappedOps, h \in ValidHeaders, valid \in BOOLEAN, t \in TargetIds :
         Arrive(s, op, h, valid, t, <<>>)
    \/ ResolveOwner(s)
    \/ CountCheck(s)
    \/ Insert(s)
    \/ CappedWrite(s)

SpecCapped == InitCapped /\ [][NextCapped]_vars

(***************************************************************************)
(* Capped resources: the claims.                                           *)
(***************************************************************************)
RowsOf(kind, owner) == {x \in db[TableOf(kind)] : x.job_seeker_id = owner}

\* The owner profile ids the store holds for a user, per profile table.
OwnerIds(table, user) == {p.id : p \in {q \in db[table] : q.user_id = user}}

\* The owner id stored on the row a mutation targets ({} when there is no such row).
TargetOwners(r) ==
  CASE r.op.res \in Kinds -> {x.job_seeker_id : x \in {y \in db[TableOf(r.op.res)] : y.id = r.target}}
    [] OTHER -> {}

\* The caller has an owner profile, the target row exists, and the row's stored
\* owner id is not the caller's.
NonOwnerMutation(r) ==
  /\ r.op.act \in {"update", "delete"}
  /\ r.user # NoUser
  /\ OwnerIds(ProfileTableOf(r.op.res), r.user) # {}
  /\ TargetOwners(r) # {}
  /\ TargetOwners(r) \cap OwnerIds(ProfileTableOf(r.op.res), r.user) = {}

Finishes(s) == reqs[s].pc \notin {"idle", "done"} /\ reqs'[s].pc = "done"

\* C1: an update or delete by a caller whose resolved owner id differs from the
\* owner id stored on the target row is answered 403 and changes no row.
C1_NonOwnerGets403 ==
  [][\A s \in Slots :
       (Finishes(s) /\ NonOwnerMutation(reqs[s]))
         => (reqs'[s].resp.status = 403 /\ db' = db)]_vars

\* C3: for each capped kind and each owner, the stored rows never exceed the cap.
C3_CountNeverExceedsCap ==
  \A k \in Kinds : \A o \in {x.job_seeker_id : x \in db[TableOf(k)]} :
    Cardinality(RowsOf(k, o)) <= Cap(k)

\* C4: a capped create whose owner already holds N or more rows fails with
\* DatabaseError at the count check, which follows the owner resolution, and
\* inserts nothing.
C4_AtLimitCreateFails ==
  [][\A s \in Slots :
       LET r == reqs[s] IN
       (r.op.res \in Kinds /\ r.op.act = "create"
          /\ r.pc \in {"count", "insert"} /\ reqs'[s] # r
          /\ Cardinality(RowsOf(r.op.res, r.ownerId)) >= Cap(r.op.res))
         => /\ reqs'[s].pc = "done"
            /\ reqs'[s].resp.error = "DatabaseError"
            /\ db' = db]_vars

\* C7: when the primary insert, update or delete fails with persistence error
\* code c, the response status is the status the error table maps c to.
C7_StatusIsMappedStatus ==
  \A s \in Slots :
    (reqs[s].pc = "done" /\ reqs[s].error # NoError)
      => reqs[s].resp.status = mapSupabaseError(StoreError(reqs[s].error)).statusCode

(***************************************************************************)
(* Authentication: any header may arrive, and the secret may be missing.   *)
(* authenticateJWT holds no await, so requests are taken one after another.*)
(***************************************************************************)
AuthOps == {Op("education", "create")}

InitAuth ==
  /\ InitCommon
  /\ jwtSecret \in BOOLEAN
  /\ db = [EmptyDb EXCEPT
             !["job_seekers"] = {Profile(1, "u1"), Profile(2, "u2")},
             !["job_seeker_education"] = Prefilled("education")]

NextAuth ==
  \E s \in Slots :
    \/ \E op \in AuthOps, h \in Headers : FreeSlots = Slots /\ Arrive(s, op, h, TRUE, 0, <<>>)
    \/ ResolveOwner(s)
    \/ CountCheck(s)
    \/ Insert(s)

SpecAuth == InitAuth /\ [][NextAuth]_vars

\* The header is exactly "Bearer <token>": the word Bearer, one space, and a
\* non-empty token holding no space.
WellFormedBearer(h) ==
  /\ h.present
  /\ Len(h.value) >= 3
  /\ h.value[1] = "Bearer"
  /\ h.value[2] = SP
  /\ \A i \in 3..Len(h.value) : h.value[i] # SP

\* The request was answered by authenticateJWT itself: next() was not called,
\* no identity or token was attached, the controller did not run and no
\* persistence call was issued.
StoppedAtAuth(r) ==
  /\ r.pc = "done"
  /\ r.resp.sent
  /\ ~r.nextCalled
  /\ ~r.controllerRan
  /\ r.user = NoUser
  /\ r.accessToken = NoToken
  /\ r.calls = <<>>

\* C2: a request whose Authorization header is absent or is not exactly
\* "Bearer <token>" is answered 401 with success:false, and neither the
\* controller nor any persistence call runs.
C2_NoBearerIs401 ==
  \A s \in Slots :
    (reqs[s].pc # "idle" /\ ~WellFormedBearer(reqs[s].header))
      => /\ StoppedAtAuth(reqs[s])
         /\ reqs[s].resp.status = 401
         /\ ~reqs[s].resp.success

C2_Witness ==
  \E s \in Slots :
    /\ reqs[s].pc = "done"
    /\ reqs[s].header = [present |-> TRUE, value |-> <<"jwt_u1", SP, "jwt_u1">>]
    /\ StoppedAtAuth(reqs[s])
    /\ reqs[s].resp.status = 401

\* The token of a well-formed header is one JWT of the given kind.
HasJwt(h, P(_)) ==
  /\ WellFormedBearer(h)
  /\ Len(h.value) = 3
  /\ h.value[3] \in JwtNames
  /\ P(JwtOf(h.value[3]))

ExpiredJwt(j) == j.sigOk /\ j.expired
BadSigJwt(j) == ~j.sigOk

ExpiredAnswer(r) ==
  StoppedAtAuth(r) /\ r.resp.status = 401 /\ r.resp.code = "TOKEN_EXPIRED"
InvalidAnswer(r) ==
  StoppedAtAuth(r) /\ r.resp.status = 401 /\ r.resp.code = "INVALID_TOKEN"

\* C10 as claimed: on every protected route an expired credential is answered
\* 401 TOKEN_EXPIRED and one with an invalid signature 401 INVALID_TOKEN, next()
\* is not called and no identity is attached.
C10_Claimed ==
  \A s \in Slots :
    reqs[s].pc # "idle" =>
      /\ HasJwt(reqs[s].header, ExpiredJwt) => ExpiredAnswer(reqs[s])
      /\ HasJwt(reqs[s].header, BadSigJwt) => InvalidAnswer(reqs[s])

\* C10 as amended: the same, when the shared JWT secret is configured (without
\* it authenticateJWT answers 500 before it verifies anything).
C10_ExpiredVsInvalid ==
  \A s \in Slots :
    (reqs[s].pc # "idle" /\ jwtSecret) =>
      /\ HasJwt(reqs[s].header, ExpiredJwt) => ExpiredAnswer(reqs[s])
      /\ HasJwt(reqs[s].header, BadSigJwt) => InvalidAnswer(reqs[s])

C10_Witness ==
  \E s \in Slots :
    /\ jwtSecret
    /\ reqs[s].pc = "done"
    /\ reqs[s].header = BearerOf("jwt_expired")
    /\ reqs[s].resp.code = "TOKEN_EXPIRED"

(***************************************************************************)
(* Owner profiles: creates of job-seeker and employer profiles, from an    *)
(* empty store.                                                            *)
(***************************************************************************)
ProfileOps == {Op(k, "create") : k \in ProfileKinds}

InitProfile ==
  /\ InitCommon
  /\ jwtSecret = TRUE
  /\ db = EmptyDb

NextProfile ==
  \E s \in Slots :
    \/ \E op \in ProfileOps, h \in ValidHeaders, valid \in BOOLEAN : Arrive(s, op, h, valid, 0, <<>>)
    \/ ProfileLookup(s)
    \/ Insert(s)

SpecProfile == InitProfile /\ [][NextProfile]_vars

ProfilesOf(kind, user) == {p \in db[TableOf(kind)] : p.user_id = user}

IssuedWrite(r) == \E i \in 1..Len(r.calls) : r.calls[i][1] \in {"insert", "rpc"}

\* C5: a profile create whose existence check runs while the subject's profile
\* of that kind is stored (an earlier create succeeded) ends 409 Conflict,
\* issues no insert or creation procedure call and leaves the store unchanged.
C5_SecondCreateIs409 ==
  [][\A s \in Slots :
       LET r == reqs[s] IN
       (r.op \in ProfileOps /\ r.pc = "lookup" /\ reqs'[s] # r
          /\ ProfilesOf(r.op.res, r.user) # {})
         => /\ reqs'[s].pc = "done"
            /\ reqs'[s].resp.status = 409
            /\ ~IssuedWrite(reqs'[s])
            /\ db' = db]_vars

\* C6: the store never holds two owner profiles of one kind for one subject.
C6_OneProfilePerSubject ==
  \A k \in ProfileKinds : \A u \in Users : Cardinality(ProfilesOf(k, u)) <= 1

(***************************************************************************)
(* Jobs: updates and deletes of job 1, which employer profile 1 (u1)       *)
(* posted; u2 is another employer, or has no employer profile.             *)
(***************************************************************************)
JobOps == {Op("job", "update"), Op("job", "delete")}

\* The child lists a job payload carries: none, or all three.
KidChoices ==
  {<<>>, <<[table |-> "job_requirements", items |-> <<<<"v1">>>>],
           [table |-> "job_benefits", items |-> <<<<"v1">>>>],
           [table |-> "job_tags", items |-> <<<<"v1">>>>]>>}

Job(id, employer) == [id |-> id, employer_id |-> employer, status |-> "active", data |-> "v0"]

InitJob ==
  /\ InitCommon
  /\ jwtSecret = TRUE
  /\ \E others \in SUBSET {Profile(2, "u2")} :
       db = [t \in Tables |->
               IF t = "employers" THEN {Profile(1, "u1")} \cup others
               ELSE IF t = "jobs" THEN {Job(1, 1)}
               ELSE IF t \in ChildTables THEN {[job_id |-> 1, data |-> <<"v0">>]}
               ELSE {}]

NextJob ==
  \E s \in Slots :
    \/ \E op \in JobOps, h \in ValidHeaders, valid \in BOOLEAN, k \in KidChoices :
         Arrive(s, op, h, valid, 1, k)
    \/ ResolveOwner(s)
    \/ JobFetch(s)
    \/ JobWrite(s)
    \/ KidDelete(s)
    \/ KidInsert(s)
    \/ Refetch(s)

SpecJob == InitJob /\ [][NextJob]_vars

\* Job r.target is stored and the caller is authenticated and is not its
\* employer: no employer profile of the caller is the job's employer_id.
NotEmployerOf(r) ==
  /\ r.op \in JobOps
  /\ r.user # NoUser
  /\ \E j \in db["jobs"] : j.id = r.target
  /\ \A j \in db["jobs"] : j.id = r.target => j.employer_id \notin OwnerIds("employers", r.user)

OnlyReads(r) == \A i \in 1..Len(r.calls) : r.calls[i][1] = "select"

\* The body passes the controller's schema and the store answered every lookup.
CleanRun(r) == (HasValidation(r.op) => r.valid) /\ ~r.readErr

\* C8 as claimed: every step of an update or delete of a job by an authenticated
\* caller who is not its employer leaves the job row and its requirements,
\* benefits and tags unchanged, and the request is answered 403 (read for a
\* valid body and lookups the store answers).
C8_Claimed ==
  [][\A s \in Slots :
       (reqs'[s] # reqs[s] /\ NotEmployerOf(reqs'[s]) /\ CleanRun(reqs'[s]))
         => /\ db' = db
            /\ reqs'[s].pc = "done" => reqs'[s].resp.status = 403]_vars

\* The answer the code gives a caller who is not the job's employer.
NonOwnerStatus(r) ==
  IF HasValidation(r.op) /\ ~r.valid THEN 400
  ELSE IF OwnerIds("employers", r.user) = {} \/ r.readErr THEN 404
  ELSE 403

\* C8 as amended: such a request issues no write and changes nothing; it is
\* answered 403 when the body is valid, the caller has an employer profile and
\* both lookups succeed, 404 when the caller has no employer profile or a
\* lookup fails, 400 when the update's body is invalid.
C8_NonOwnerWritesNothing ==
  [][\A s \in Slots :
       (reqs'[s] # reqs[s] /\ NotEmployerOf(reqs'[s]))
         => /\ db' = db
            /\ OnlyReads(reqs'[s])
            /\ reqs'[s].pc \in {"resolve", "fetch", "done"}
            /\ reqs'[s].pc = "done" => reqs'[s].resp.status = NonOwnerStatus(reqs'[s])]_vars

C8_Witness ==
  \E s \in Slots :
    /\ reqs[s].pc = "done"
    /\ NotEmployerOf(reqs[s])
    /\ OwnerIds("employers", reqs[s].user) # {}
    /\ Len(reqs[s].calls) = 2
    /\ reqs[s].resp.status = 403
    /\ reqs[s].resp.error = "ForbiddenError"

(***************************************************************************)
(* Creates of owned resources: u1 has a job-seeker profile and no employer *)
(* profile, u2 an employer profile and no job-seeker profile; job 1 is     *)
(* posted by u2.                                                           *)
(***************************************************************************)
OwnedKinds == Kinds \cup {"saved_job", "application", "document", "job"}

CreateOps == {Op(k, "create") : k \in OwnedKinds}

KidsFor(op) == IF op.res = "job" THEN KidChoices ELSE {<<>>}

\* The job a saved job or an application names: job 1, or no stored job.
TargetsFor(op) == IF op.res \in {"saved_job", "application"} THEN TargetIds ELSE {0}

InitCreate ==
  /\ InitCommon
  /\ jwtSecret = TRUE
  /\ db = [EmptyDb EXCEPT
             !["job_seekers"] = {Profile(1, "u1")},
             !["employers"] = {Profile(2, "u2")},
             !["jobs"] = {Job(1, 2)}]

NextCreate ==
  \E s \in Slots :
    \/ \E op \in CreateOps, h \in ValidHeaders :
         \E t \in TargetsFor(op), k \in KidsFor(op) : Arrive(s, op, h, TRUE, t, k)
    \/ ResolveOwner(s)
    \/ CountCheck(s)
    \/ DupCheck(s)
    \/ JobCheck(s)
    \/ Insert(s)
    \/ KidInsert(s)
    \/ Refetch(s)

SpecCreate == InitCreate /\ [][NextCreate]_vars

\* The keyed lookup of the caller's owner profile yields no row or an error.
NoOwnerProfile(before, after) ==
  \/ OwnerIds(ProfileTableOf(before.op.res), before.user) = {}
  \/ after.readErr

\* C9: when the owner lookup of a create (education, experience, certification,
\* saved job, application, document, job) yields no row or an error, the create
\* ends 404 NotFound, has issued no write, and no table changes: no row is
\* inserted and no owner profile appears.
C9_NoProfileIs404 ==
  [][\A s \in Slots :
       (reqs[s].op \in CreateOps /\ reqs[s].pc = "resolve" /\ reqs'[s] # reqs[s]
          /\ NoOwnerProfile(reqs[s], reqs'[s]))
         => /\ reqs'[s].pc = "done"
            /\ reqs'[s].resp.status = 404
            /\ reqs'[s].resp.error = "NotFoundError"
            /\ OnlyReads(reqs'[s])
            /\ db' = db]_vars

C9_Witness ==
  /\ \E s \in Slots :
       /\ reqs[s].pc = "done"
       /\ reqs[s].op = Op("job", "create")
       /\ OwnerIds("employers", reqs[s].user) = {}
       /\ reqs[s].calls = <<<<"select", "employers", reqs[s].accessToken>>>>
       /\ reqs[s].resp.status = 404
  /\ \E s \in Slots :
       /\ reqs[s].pc = "done"
       /\ reqs[s].op = Op("document", "create")
       /\ OwnerIds("job_seekers", reqs[s].user) = {}
       /\ reqs[s].calls = <<<<"select", "job_seekers", reqs[s].accessToken>>>>
       /\ reqs[s].resp.status = 404

(***************************************************************************)
(* The credential of the persistence calls.                                *)
(***************************************************************************)
\* The raw token of the request's Authorization header, parts[1] in the code.
RawToken(r) == Split(r.header.value)[2][1]

\* C11: every persistence call issued for an authenticated request carries the
\* caller's raw token, the one authenticateJWT took from the header and stored
\* as req.accessToken, and never another or a more privileged credential.
C11_CallsUseCallerToken ==
  \A s \in Slots :
    reqs[s].nextCalled =>
      /\ reqs[s].accessToken = RawToken(reqs[s])
      /\ \A i \in 1..Len(reqs[s].calls) : reqs[s].calls[i][3] = reqs[s].accessToken

(***************************************************************************)
(* createApp: the middleware chain ahead of the routes (correlationId,     *)
(* generalRateLimiter, express.json), the routes, notFoundHandler and      *)
(* errorHandler.  A response is {sent, status, body}; a body is a record    *)
(* with exactly the fields the code passes to res.json.                    *)
(***************************************************************************)
RateLimitGeneral == 2    \* config.rateLimit.general, scaled down

NodeEnvs == {"production", "development", "test", ""}

\* The inbound X-Correlation-ID header: absent, empty, or an id.
NoCid == [present |-> FALSE, value |-> ""]
InboundCids == {NoCid, [present |-> TRUE, value |-> ""], [present |-> TRUE, value |-> "cid_a"]}

\* Values randomUUID() may return.
UUIDs == {"uuid_1", "uuid_2"}

\* The tagger that never looks at the inbound header.
correlationIdIgnoringHeader(xcid, uuid) == uuid

\* (req.headers['x-correlation-id'] as string) || randomUUID()
correlationId(xcid, uuid) == IF xcid.present /\ xcid.value # "" THEN xcid.value ELSE uuid

Send(status, body) == [sent |-> TRUE, status |-> status, body |-> body]
NotSent == [sent |-> FALSE, status |-> 0, body |-> <<>>]

\* The body authenticateJWT sends: code only on the token errors.
BodyOf(j) ==
  IF j.code = ""
  THEN [success |-> j.success, error |-> j.error, message |-> j.message]
  ELSE [success |-> j.success, error |-> j.error, message |-> j.message, code |-> j.code]

\* The limiter that refuses the request that reaches the maximum.
rateLimitedAtMax(hits, max) == hits >= max

\* express-rate-limit: a client is refused once its hits in the window exceed max.
rateLimited(hits, max) == hits > max

\* generalRateLimiter's message.
TooManyRequests ==
  [success |-> FALSE, error |-> "Too Many Requests",
   message |-> "Too many requests, please try again later"]

\* What express.json hands to next(err) for a body it cannot parse.
SyntaxError == [class |-> "Error", name |-> "SyntaxError", message |-> "Unexpected token"]

\* The message test that spares production only.
disclosesMessageOutsideProduction(env) == env # "production"

\* process.env.NODE_ENV === 'development'
disclosesMessage(env) == env = "development"

\* errorHandler in full: ZodError, AppError, anything else.
errorHandlerResponse(error, cid, env) ==
  IF error.class = "ZodError"
  THEN Send(400, [success |-> FALSE, error |-> "Validation Error",
                  message |-> "Invalid request data", details |-> error.details,
                  correlationId |-> cid])
  ELSE IF error.class = "AppError"
  THEN Send(error.statusCode, [success |-> FALSE, error |-> error.name,
                               message |-> error.message, code |-> error.code,
                               correlationId |-> cid])
  ELSE Send(500, [success |-> FALSE, error |-> "Internal Server Error",
                  message |-> IF disclosesMessage(env) THEN error.message
                              ELSE "An unexpected error occurred",
                  correlationId |-> cid])

notFoundHandler(r) ==
  Send(404, [success |-> FALSE, error |-> "Not Found",
             message |-> <<"Route", "GET", r.route, "not found">>,
             correlationId |-> r.correlationId])

\* The paths of the model, all requested with GET.
PipeRoutes == {"/api/health/live", "/api/health", "/api/v1/profile",
               "/api/unknown-route", "/api/v1/dashboard/unknown"}

\* The paths a route is registered for.
Registered(route) == route \in {"/api/health/live", "/api/health", "/api/v1/profile"}

\* No router mounts authenticateJWT.
UnderAuthRouterNever(route) == FALSE

\* The paths below a router that starts with router.use(authenticateJWT).
UnderAuthRouter(route) == route \in {"/api/v1/profile", "/api/v1/dashboard/unknown"}

Bodies == {"parseable", "malformed"}
PipeHeaders == {NoHeader, BearerOf("jwt_u1"), BearerOf("jwt_expired")}

IdlePipe ==
  [pc |-> "idle", route |-> "", xcid |-> NoCid, body |-> "parseable", header |-> NoHeader,
   hits |-> 0, correlationId |-> "", xCorrelationId |-> "", user |-> NoUser,
   accessToken |-> NoToken, nextCalled |-> FALSE, calls |-> <<>>, resp |-> NotSent]

Answer(r, resp) == [r EXCEPT !.pc = "done", !.resp = resp]

\* The routes, for a request that passed the limiter and the body parser.
Dispatch(r) ==
  IF r.route = "/api/health/live"
  THEN Answer(r, Send(200, [status |-> "alive", timestamp |-> "now"]))
  ELSE IF r.route = "/api/health"
  THEN [r EXCEPT !.pc = "probe"]
  ELSE IF UnderAuthRouter(r.route)
  THEN LET a == authenticateJWT(r.header, jwtSecret)
           r1 == [r EXCEPT !.user = a.user, !.accessToken = a.accessToken,
                           !.nextCalled = a.nextCalled]
       IN IF ~a.nextCalled
          THEN Answer(r1, Send(a.resp.status, BodyOf(a.resp)))
          ELSE IF Registered(r.route)
          THEN [r1 EXCEPT !.pc = "profile"]
          ELSE Answer(r1, notFoundHandler(r1))
  ELSE Answer(r, notFoundHandler(r))

\* A request is received: correlationId, generalRateLimiter, express.json and
\* the route up to its first await.
Receive(s, route, xcid, uuid, body, header) ==
  /\ s = FreeSlot
  /\ started <= RateLimitGeneral
  /\ started' = started + 1
  /\ LET id == correlationId(xcid, uuid)
         r == [IdlePipe EXCEPT !.route = route, !.xcid = xcid, !.body = body,
                               !.header = header, !.hits = started + 1,
                               !.correlationId = id, !.xCorrelationId = id]
     IN IF rateLimited(r.hits, RateLimitGeneral)
        THEN Put(s, Answer(r, Send(429, TooManyRequests)))
        ELSE IF body = "malformed"
        THEN Put(s, Answer(r, errorHandlerResponse(SyntaxError, r.correlationId, nodeEnv)))
        ELSE Put(s, Dispatch(r))
  /\ UNCHANGED <<nodeEnv, jwtSecret, db, nextId>>

\* GET /api/health: the dependency probe and the answer.
Probe(s) ==
  /\ reqs[s].pc = "probe"
  /\ \E f \in ReadFaults :
       LET r == ServiceCall(reqs[s], "select", "users")
           database == IF f # NoError THEN "error" ELSE "ok"
       IN Put(s, Answer(r, Send(IF database = "error" THEN 503 ELSE 200,
                                [status |-> IF database = "error" THEN "unhealthy" ELSE "healthy",
                                 timestamp |-> "now", version |-> "1.0.0",
                                 checks |-> [database |-> database], responseTime |-> 0])))
  /\ UNCHANGED <<nodeEnv, jwtSecret, db, nextId, started>>

\* ProfileController.getCurrentProfile: the read and the answer.
CurrentProfile(s) ==
  /\ reqs[s].pc = "profile"
  /\ \E f \in ReadFaults :
       LET r == Call(reqs[s], "select", "job_seekers")
           profile == getByUserId("job_seekers", r.user, f)
       IN IF profile = {}
          THEN Put(s, Answer(r, Send(200, [success |-> TRUE, data |-> {},
                                           message |-> "No profile found for this user"])))
          ELSE Put(s, Answer(r, Send(200, [success |-> TRUE, data |-> profile])))
  /\ UNCHANGED <<nodeEnv, jwtSecret, db, nextId, started>>

InitPipeline ==
  /\ nodeEnv \in NodeEnvs
  /\ jwtSecret \in BOOLEAN
  /\ db \in {EmptyDb, [EmptyDb EXCEPT !["job_seekers"] = {Profile(1, "u1")}]}
  /\ nextId = 100
  /\ reqs = [s \in Slots |-> IdlePipe]
  /\ started = 0

\* The requests of a run share nothing but the limiter's count of them and
\* the store, which no route of this chain writes: they are taken one at a time.
NextPipeline ==
  \E s \in Slots :
    \/ \E route \in PipeRoutes, xcid \in InboundCids, uuid \in UUIDs, body \in Bodies,
          header \in PipeHeaders :
         FreeSlots = Slots /\ Receive(s, route, xcid, uuid, body, header)
    \/ Probe(s)
    \/ CurrentProfile(s)

SpecPipeline == InitPipeline /\ [][NextPipeline]_vars

\* A body in the envelope form {success, ...}; the health bodies are not.
IsEnvelope(body) == "success" \in DOMAIN body

\* C12: the body of every JSON envelope the system answers with (success,
\* authentication failure, not-found, rate limiting, fault handler) has a field
\* correlationId, equal to the correlation id of the request.
C12_EveryBodyHasCorrelationId ==
  \A s \in Slots :
    (reqs[s].resp.sent /\ IsEnvelope(reqs[s].resp.body)) =>
      /\ "correlationId" \in DOMAIN reqs[s].resp.body
      /\ reqs[s].resp.body.correlationId = reqs[s].correlationId

\* The caller supplied a correlation id: the header is there and not empty.
Supplied(xcid) == xcid.present /\ xcid.value # ""

\* C13: every response, whoever sends it, carries the header X-Correlation-ID;
\* its value is the inbound X-Correlation-ID when the caller supplied one (an
\* absent or empty header supplies none) and a generated id otherwise; it is
\* req.correlationId, set before the limiter or any route runs, and neither
\* changes while the request is handled.
C13_HeaderIsTheCorrelationId ==
  /\ [](\A s \in Slots :
          reqs[s].pc # "idle" =>
            /\ reqs[s].xCorrelationId = reqs[s].correlationId
            /\ IF Supplied(reqs[s].xcid)
               THEN reqs[s].xCorrelationId = reqs[s].xcid.value
               ELSE reqs[s].xCorrelationId \in UUIDs)
  /\ [][\A s \in Slots :
          reqs[s].pc \notin {"idle", "done"} =>
            /\ reqs'[s].xCorrelationId = reqs[s].xCorrelationId
            /\ reqs'[s].correlationId = reqs[s].correlationId]_vars

\* A rate-limited request that named its id, and got it back.
C13_Witness ==
  \E s \in Slots :
    /\ reqs[s].pc = "done"
    /\ reqs[s].resp.status = 429
    /\ reqs[s].xcid = [present |-> TRUE, value |-> "cid_a"]
    /\ reqs[s].xCorrelationId = "cid_a"

\* The request is among the first RateLimitGeneral of its window and its body,
\* if any, parses: it reaches the routes.
ReachesRoutes(r) == r.hits <= RateLimitGeneral /\ r.body = "parseable"

\* C17 as claimed: GET /health/live is answered 200 with status 'alive' in
\* every state, whatever the database's state and however many requests came
\* before it (read for a request whose body, if any, parses).
C17_Claimed ==
  \A s \in Slots :
    (reqs[s].pc = "done" /\ reqs[s].route = "/api/health/live" /\ reqs[s].body = "parseable")
      => /\ reqs[s].resp.status = 200
         /\ reqs[s].resp.body.status = "alive"

\* C17 as amended: GET /health/live is answered at once and issues no
\* persistence call, whatever the store holds; the answer is 200 with status
\* 'alive' when the request reaches the routes, 429 when more than
\* RateLimitGeneral requests came in the window, else 500 for a body that does
\* not parse.
C17_LiveUnlessLimited ==
  \A s \in Slots :
    (reqs[s].pc # "idle" /\ reqs[s].route = "/api/health/live")
      => /\ reqs[s].pc = "done"
         /\ reqs[s].calls = <<>>
         /\ IF reqs[s].hits > RateLimitGeneral
            THEN reqs[s].resp.status = 429
            ELSE IF reqs[s].body # "parseable"
            THEN reqs[s].resp.status = 500
            ELSE reqs[s].resp = Send(200, [status |-> "alive", timestamp |-> "now"])

\* The last request the limiter lets through asks for /health/live.
C17_Witness ==
  \E s \in Slots :
    /\ reqs[s].pc = "done"
    /\ reqs[s].route = "/api/health/live"
    /\ reqs[s].hits = RateLimitGeneral
    /\ reqs[s].resp.status = 200
    /\ db = EmptyDb

\* C18 as claimed: a request that matches no registered route is answered with
\* the 404 envelope (success false, error 'Not Found'), with or without a
\* credential and under whichever path prefix (read for a request that
\* reaches the routes).
C18_Claimed ==
  \A s \in Slots :
    (reqs[s].pc = "done" /\ ~Registered(reqs[s].route) /\ ReachesRoutes(reqs[s]))
      => /\ reqs[s].resp.status = 404
         /\ reqs[s].resp.body.success = FALSE
         /\ reqs[s].resp.body.error = "Not Found"

\* C18 as amended: a request that matches no registered route and reaches the
\* routes is answered at once; below a prefix whose router starts with
\* authenticateJWT (here /api/v1/dashboard) a request without a valid
\* credential gets authenticateJWT's answer (401, or 500 for a well-formed
\* Bearer header when the secret is not configured), and every other one gets
\* the 404 envelope with the request's correlation id.
C18_NotFoundUnlessAuthFirst ==
  \A s \in Slots :
    (reqs[s].pc # "idle" /\ ~Registered(reqs[s].route) /\ ReachesRoutes(reqs[s]))
      => /\ reqs[s].pc = "done"
         /\ LET a == authenticateJWT(reqs[s].header, jwtSecret) IN
            IF reqs[s].route = "/api/v1/dashboard/unknown" /\ ~a.nextCalled
            THEN /\ reqs[s].resp = Send(a.resp.status, BodyOf(a.resp))
                 /\ reqs[s].resp.status =
                      IF WellFormedBearer(reqs[s].header) /\ ~jwtSecret THEN 500 ELSE 401
            ELSE /\ reqs[s].resp.status = 404
                 /\ reqs[s].resp.body.success = FALSE
                 /\ reqs[s].resp.body.error = "Not Found"
                 /\ reqs[s].resp.body.correlationId = reqs[s].correlationId

\* An unmatched path below /api/v1/dashboard, asked for without a header.
C18_Witness ==
  \E s \in Slots :
    /\ reqs[s].pc = "done"
    /\ reqs[s].route = "/api/v1/dashboard/unknown"
    /\ reqs[s].header = NoHeader
    /\ ReachesRoutes(reqs[s])
    /\ reqs[s].resp.status = 401

\* The body of the request does not parse: express.json hands a SyntaxError,
\* neither a ZodError nor an AppError, to errorHandler.
UnknownFailure(r) == r.pc = "done" /\ r.hits <= RateLimitGeneral /\ r.body = "malformed"

\* C19 as claimed: a failure that is neither a ZodError nor an AppError is
\* answered 500; the message is the generic one in production and the
\* failure's own message in every other mode.
C19_Claimed ==
  \A s \in Slots :
    UnknownFailure(reqs[s])
      => /\ reqs[s].resp.status = 500
         /\ reqs[s].resp.body.message =
              IF nodeEnv = "production" THEN "An unexpected error occurred"
              ELSE SyntaxError.message

\* C19 as amended: such a failure is answered 500 'Internal Server Error' with
\* the request's correlation id; the message is the failure's own only when
\* NODE_ENV is 'development', and the generic one in production and in every
\* other mode (test, unset).
C19_MessageOnlyInDevelopment ==
  \A s \in Slots :
    UnknownFailure(reqs[s])
      => reqs[s].resp =
           Send(500, [success |-> FALSE, error |-> "Internal Server Error",
                      message |-> IF nodeEnv = "development" THEN SyntaxError.message
                                  ELSE "An unexpected error occurred",
                      correlationId |-> reqs[s].correlationId])

C19_Witness ==
  \E s \in Slots :
    /\ UnknownFailure(reqs[s])
    /\ nodeEnv = "test"
    /\ reqs[s].resp.status = 500
    /\ reqs[s].resp.body.message = "An unexpected error occurred"

\* C20: when the JWT secret is not configured, a request with a well-formed
\* Bearer header is answered 500 by authenticateJWT, whatever the token: next()
\* is not called and neither an identity nor a token is attached.
C20_NoSecretIs500 ==
  \A s \in Slots :
    (reqs[s].pc # "idle" /\ ~jwtSecret /\ WellFormedBearer(reqs[s].header))
      => /\ reqs[s].pc = "done"
         /\ reqs[s].resp.status = 500
         /\ reqs[s].resp.success = FALSE
         /\ ~reqs[s].nextCalled
         /\ reqs[s].user = NoUser
         /\ reqs[s].accessToken = NoToken
         /\ ~reqs[s].controllerRan
         /\ reqs[s].calls = <<>>

\* A token that would verify, presented while the secret is missing.
C20_Witness ==
  \E s \in Slots :
    /\ ~jwtSecret
    /\ reqs[s].pc = "done"
    /\ reqs[s].header = BearerOf("jwt_u1")
    /\ reqs[s].resp.status = 500
    /\ ~reqs[s].nextCalled

(***************************************************************************)
(* DashboardService and DashboardController.                               *)
(***************************************************************************)
DashOps == {Op("dashboard", "job_seeker"), Op("dashboard", "employer")}

Statuses == {"applied", "under-review", "interview-scheduled", "offered", "rejected"}

CountStatus(apps, st) == Cardinality({a \in apps : a.status = st})

ZeroHistogram ==
  [applied |-> 0, underReview |-> 0, interviewScheduled |-> 0, offered |-> 0, rejected |-> 0]

\* The forEach / switch over the applications' statuses.
Histogram(apps) ==
  [applied |-> CountStatus(apps, "applied"),
   underReview |-> CountStatus(apps, "under-review"),
   interviewScheduled |-> CountStatus(apps, "interview-scheduled"),
   offered |-> CountStatus(apps, "offered"),
   rejected |-> CountStatus(apps, "rejected")]

defaultJobSeekerStats ==
  [totalApplications |-> 0, profileViews |-> 0, interviewsScheduled |-> 0, jobOffers |-> 0,
   applicationsByStatus |-> ZeroHistogram]

defaultEmployerStats ==
  [totalJobs |-> 0, activeJobs |-> 0, totalApplications |-> 0, totalViews |-> 0,
   applicationsByStatus |-> ZeroHistogram]

defaultStats(op) == IF op.act = "job_seeker" THEN defaultJobSeekerStats ELSE defaultEmployerStats

\* What a read answered: data is null when it failed.
Got(f, rows) == [failed |-> f # NoError, rows |-> IF f # NoError THEN {} ELSE rows]

\* The all-zero structure, whatever the count of views.
statsAllZero(default, profileViews) == default

\* if (!applications) return { ...defaultStats, profileViews: profileViews || 0 }
statsWithoutApplications(default, profileViews) == [default EXCEPT !.profileViews = profileViews]

\* getJobSeekerStats, after its reads: applications and views are what the two
\* reads answered; a failed count reads as null, so as 0.
jobSeekerStats(applications, views) ==
  LET profileViews == IF views.failed THEN 0 ELSE Cardinality(views.rows)
  IN IF applications.failed
     THEN statsWithoutApplications(defaultJobSeekerStats, profileViews)
     ELSE [totalApplications |-> Cardinality(applications.rows),
           profileViews |-> profileViews,
           interviewsScheduled |-> CountStatus(applications.rows, "interview-scheduled"),
           jobOffers |-> CountStatus(applications.rows, "offered"),
           applicationsByStatus |-> Histogram(applications.rows)]

\* jobs.reduce((sum, j) => sum + (j.views_count || 0), 0)
RECURSIVE SumViews(_)
SumViews(jobs) ==
  IF jobs = {} THEN 0
  ELSE LET j == CHOOSE x \in jobs : TRUE IN j.views_count + SumViews(jobs \ {j})

\* getEmployerStats, after the read of the applications; jobs is not empty.
employerStats(jobs, applications) ==
  [totalJobs |-> Cardinality(jobs.rows),
   activeJobs |-> Cardinality({j \in jobs.rows : j.status = "active"}),
   totalApplications |-> Cardinality(applications.rows),
   totalViews |-> SumViews(jobs.rows),
   applicationsByStatus |-> Histogram(applications.rows)]

\* The controller's answer: 200 {success: true, data: stats}.
DashOk(r, stats) == Respond(r, Json(200, TRUE, "", "", "") @@ [data |-> stats])

\* Without the try / catch: the error reaches the controller's next(error).
statsRethrown(r, default) == Throw(r, NotFoundError, "profile not found")

\* catch (error) { return defaultStats }
statsCaught(r, default) == DashOk(r, default)


\* getJobSeekerProfileId / getEmployerProfileId inside the try.
DashOwner(s) ==
  /\ reqs[s].pc = "dash_owner"
  /\ \E f \in ReadFaults :
       LET table == IF reqs[s].op.act = "job_seeker" THEN "job_seekers" ELSE "employers"
           rows == {p \in db[table] : p.user_id = reqs[s].user}
           r == Remember(Read(Call(reqs[s], "select", table), f), Got(f, rows))
       IN IF ownerLookupFails(f, rows)
          THEN Put(s, statsCaught(r, defaultStats(r.op)))
          ELSE Put(s, [r EXCEPT !.ownerId = (CHOOSE p \in rows : TRUE).id,
                                !.pc = IF r.op.act = "job_seeker" THEN "dash_apps"
                                       ELSE "dash_jobs"])
  /\ UNCHANGED <<nodeEnv, jwtSecret, db, nextId, started>>

\* "Get applications" of the job seeker.
DashApplications(s) ==
  /\ reqs[s].pc = "dash_apps"
  /\ \E f \in ReadFaults :
       LET rows == {a \in db["applications"] : a.job_seeker_id = reqs[s].ownerId}
           r == Remember(Read(Call(reqs[s], "select", "applications"), f), Got(f, rows))
       IN Put(s, [r EXCEPT !.pc = "dash_views"])
  /\ UNCHANGED <<nodeEnv, jwtSecret, db, nextId, started>>

\* "Get profile views count", and the reduction.
DashViews(s) ==
  /\ reqs[s].pc = "dash_views"
  /\ \E f \in ReadFaults :
       LET rows == {v \in db["profile_views"] : v.job_seeker_id = reqs[s].ownerId}
           r == Remember(Read(Call(reqs[s], "select", "profile_views"), f), Got(f, rows))
       IN Put(s, DashOk(r, jobSeekerStats(r.got[2], r.got[3])))
  /\ UNCHANGED <<nodeEnv, jwtSecret, db, nextId, started>>

\* "Get jobs" of the employer.
DashJobs(s) ==
  /\ reqs[s].pc = "dash_jobs"
  /\ \E f \in ReadFaults :
       LET rows == {j \in db["jobs"] : j.employer_id = reqs[s].ownerId}
           r == Remember(Read(Call(reqs[s], "select", "jobs"), f), Got(f, rows))
       IN IF r.got[2].failed \/ r.got[2].rows = {}
          THEN Put(s, DashOk(r, defaultEmployerStats))
          ELSE Put(s, [r EXCEPT !.pc = "dash_jobapps"])
  /\ UNCHANGED <<nodeEnv, jwtSecret, db, nextId, started>>

\* "Get applications for all jobs", and the reduction.
DashJobApplications(s) ==
  /\ reqs[s].pc = "dash_jobapps"
  /\ \E f \in ReadFaults :
       LET jobIds == {j.id : j \in reqs[s].got[2].rows}
           rows == {a \in db["applications"] : a.job_id \in jobIds}
           r == Remember(Read(Call(reqs[s], "select", "applications"), f), Got(f, rows))
       IN Put(s, DashOk(r, employerStats(r.got[2], r.got[3])))
  /\ UNCHANGED <<nodeEnv, jwtSecret, db, nextId, started>>

JobRow(id, employer, status, views) ==
  [id |-> id, employer_id |-> employer, status |-> status, views_count |-> views]

Application(id, job, seeker, status) ==
  [id |-> id, job_id |-> job, job_seeker_id |-> seeker, status |-> status]

\* u1 is job seeker 1 and employer 1, with two jobs, two applications (to
\* those jobs, under profile 1) and up to one profile view; u2 has no rows, and
\* has both profiles or none.
InitDashboard ==
  /\ InitCommon
  /\ jwtSecret = TRUE
  /\ \E st \in Statuses, views \in SUBSET {[id |-> 1, job_seeker_id |-> 1]},
        others \in SUBSET {Profile(2, "u2")} :
       db = [EmptyDb EXCEPT
               !["job_seekers"] = {Profile(1, "u1")} \cup others,
               !["employers"] = {Profile(1, "u1")} \cup others,
               !["jobs"] = {JobRow(1, 1, "active", 3), JobRow(2, 1, "closed", 0)},
               !["applications"] = {Application(1, 1, 1, st), Application(2, 2, 1, "applied")},
               !["profile_views"] = views]

NextDashboard ==
  \E s \in Slots :
    \/ \E op \in DashOps, h \in ValidHeaders : Arrive(s, op, h, TRUE, 0, <<>>)
    \/ DashOwner(s)
    \/ DashApplications(s)
    \/ DashViews(s)
    \/ DashJobs(s)
    \/ DashJobApplications(s)

SpecDashboard == InitDashboard /\ [][NextDashboard]_vars

\* What the store holds for the caller of a dashboard request.
SeekerApplications(r) ==
  {a \in db["applications"] : a.job_seeker_id \in OwnerIds("job_seekers", r.user)}
SeekerViews(r) ==
  {v \in db["profile_views"] : v.job_seeker_id \in OwnerIds("job_seekers", r.user)}
EmployerJobs(r) == {j \in db["jobs"] : j.employer_id \in OwnerIds("employers", r.user)}
EmployerApplications(r) ==
  {a \in db["applications"] : a.job_id \in {j.id : j \in EmployerJobs(r)}}

\* The figures of a dashboard when every read succeeds.
TrueStats(r) ==
  IF r.op.act = "job_seeker"
  THEN [totalApplications |-> Cardinality(SeekerApplications(r)),
        profileViews |-> Cardinality(SeekerViews(r)),
        interviewsScheduled |-> CountStatus(SeekerApplications(r), "interview-scheduled"),
        jobOffers |-> CountStatus(SeekerApplications(r), "offered"),
        applicationsByStatus |-> Histogram(SeekerApplications(r))]
  ELSE IF EmployerJobs(r) = {} THEN defaultEmployerStats
  ELSE [totalJobs |-> Cardinality(EmployerJobs(r)),
        activeJobs |-> Cardinality({j \in EmployerJobs(r) : j.status = "active"}),
        totalApplications |-> Cardinality(EmployerApplications(r)),
        totalViews |-> SumViews(EmployerJobs(r)),
        applicationsByStatus |-> Histogram(EmployerApplications(r))]

DashDone(r) == r.op \in DashOps /\ r.pc = "done"

\* C14 as claimed: when any read of a dashboard fails (owner profile,
\* applications, profile views, jobs) the operation returns the all-zero
\* default structure.
C14_Claimed ==
  \A s \in Slots :
    (DashDone(reqs[s]) /\ reqs[s].readErr) => reqs[s].resp.data = defaultStats(reqs[s].op)

\* The figures the code returns when a read has failed; got[1] is the owner
\* lookup, got[2] and got[3] the reads that follow it.
DegradedStats(r) ==
  LET failed(i) == i <= Len(r.got) /\ r.got[i].failed
      true == TrueStats(r)
  IN IF failed(1) THEN defaultStats(r.op)
     ELSE IF r.op.act = "job_seeker"
     THEN IF failed(2)
          THEN [defaultJobSeekerStats EXCEPT
                  !.profileViews = IF failed(3) THEN 0 ELSE true.profileViews]
          ELSE [true EXCEPT !.profileViews = 0]
     ELSE IF failed(2) THEN defaultEmployerStats
          ELSE [true EXCEPT !.totalApplications = 0, !.applicationsByStatus = ZeroHistogram]

\* C14 as amended: a dashboard with a failed read is still answered 200.  The
\* figures are all zero when the owner lookup fails, and for the employer when
\* the jobs read fails.  For the job seeker a failed applications read zeroes
\* the application figures but keeps the count of profile views, and a failed
\* count zeroes profileViews only; for the employer a failed applications read
\* zeroes the application figures only.
C14_FailedReadZeroesItsFigures ==
  \A s \in Slots :
    (DashDone(reqs[s]) /\ reqs[s].readErr)
      => /\ reqs[s].resp.status = 200
         /\ reqs[s].resp.data = DegradedStats(reqs[s])

\* The applications read failed, the count of views did not, and there is a view.
C14_Witness ==
  \E s \in Slots :
    /\ DashDone(reqs[s])
    /\ reqs[s].op.act = "job_seeker"
    /\ Len(reqs[s].got) = 3
    /\ reqs[s].got[2].failed
    /\ ~reqs[s].got[3].failed
    /\ reqs[s].resp.data.profileViews = 1
    /\ reqs[s].resp.data.totalApplications = 0

\* C15: a dashboard request of an authenticated caller is never answered with
\* an error status: it ends 200 with success true and the stats, the true
\* figures when every read succeeds; a caller with no rows gets all counters 0.
C15_DashboardAlways200 ==
  \A s \in Slots :
    (reqs[s].op \in DashOps /\ reqs[s].pc # "idle")
      => /\ reqs[s].nextCalled
         /\ reqs[s].error = NoError
         /\ reqs[s].pc = "done" =>
              /\ reqs[s].resp.status = 200
              /\ reqs[s].resp.success
              /\ ~reqs[s].readErr => reqs[s].resp.data = TrueStats(reqs[s])
              /\ (SeekerApplications(reqs[s]) \cup SeekerViews(reqs[s])
                    \cup EmployerJobs(reqs[s]) = {})
                   => reqs[s].resp.data = defaultStats(reqs[s].op)

\* u2 has a profile and no rows, and every read succeeded.
C15_Witness ==
  \E s \in Slots :
    /\ DashDone(reqs[s])
    /\ reqs[s].user = "u2"
    /\ ~reqs[s].readErr
    /\ Len(reqs[s].got) = 3
    /\ reqs[s].resp.status = 200
    /\ reqs[s].resp.data = defaultJobSeekerStats

(***************************************************************************)
(* One application per job and job seeker.                                 *)
(***************************************************************************)
\* The applications stored for the pair of an application create, once the
\* caller's job-seeker profile is resolved.
PairRows(r) == {a \in db["applications"] : a.job_id = r.target /\ a.job_seeker_id = r.ownerId}

\* An application create past the owner lookup, not yet answered.
Applying(r) == r.op = Op("application", "create") /\ r.pc \in {"dupcheck", "jobcheck", "insert"}

\* C16: no (job, job seeker) pair ever has two applications, and an
\* application create for a pair that already has one ends 409 Conflict and
\* stores nothing, whether the pre-insert lookup finds the row or the store
\* reports the unique violation on insert.
C16_OneApplicationPerPair ==
  /\ [](\A a, b \in db["applications"] :
          (a.job_id = b.job_id /\ a.job_seeker_id = b.job_seeker_id) => a = b)
  /\ [][\A s \in Slots :
          (Applying(reqs[s]) /\ PairRows(reqs[s]) # {} /\ reqs'[s].pc = "done")
            => /\ reqs'[s].resp.status = 409
               /\ db' = db]_vars

(***************************************************************************)
(* mapSupabaseError applied to the error objects a store client can hand   *)
(* over: one call per behaviour, its argument kept in error and its result *)
(* in got.                                                                 *)
(***************************************************************************)
MaxWords == 2
Words == {"rows", "returned", "0"}
Texts == SeqsUpTo(Words, MaxWords)
KnownCodes == DOMAIN POSTGRES_ERROR_CODES \cup DOMAIN POSTGREST_ERROR_CODES
ErrorCodes == KnownCodes \cup {"", "XX000"} \cup ObjectPrototypeKeys
ErrorObjects == [code : ErrorCodes, message : Texts, details : Texts]

MapError(s, error) ==
  /\ reqs[s].pc = "idle"
  /\ Put(s, [reqs[s] EXCEPT !.pc = "done", !.error = error,
                            !.got = <<mapSupabaseError(error)>>])
  /\ started' = started + 1
  /\ UNCHANGED <<nodeEnv, jwtSecret, db, nextId>>

InitMap == InitCommon /\ jwtSecret = TRUE /\ db = EmptyDb

NextMap == \E error \in ErrorObjects : FreeSlots = Slots /\ started = 0 /\ MapError(FreeSlot, error)

SpecMap == InitMap /\ [][NextMap]_vars

Mapped(s) == reqs[s].pc = "done"
Unexpected == [message |-> "An unexpected error occurred", statusCode |-> 500]

\* The status the claim's table gives each listed code.
ClaimedStatus(code) ==
  CASE code = "23505" -> 409
    [] code \in {"23503", "23502", "23514"} -> 400
    [] code = "42501" -> 403
    [] code = "PGRST116" -> 404
    [] code = "PGRST102" -> 409
    [] code \in {"PGRST301", "PGRST302"} -> 401
    [] OTHER -> 500

\* C27 as claimed: every listed code maps to its status, and every error whose
\* code is in neither table (and names no inherited property) maps to 500
\* 'An unexpected error occurred'.
C27_Claimed ==
  \A s \in Slots :
    Mapped(s) /\ reqs[s].error.code \notin ObjectPrototypeKeys \cup {"42P01"}
      => /\ reqs[s].got[1].statusCode = ClaimedStatus(reqs[s].error.code)
         /\ reqs[s].error.code \notin KnownCodes => reqs[s].got[1] = Unexpected

\* C27 amended: every listed code maps to its status whatever the message; an
\* error whose code is in neither table maps to 404 'Record not found' when
\* its message includes 'rows returned' or its details include '0 rows', and
\* to 500 'An unexpected error occurred' otherwise; a code that names an
\* inherited property of the table object yields no mapping at all.
C27_TableThenNoRowsFallback ==
  \A s \in Slots :
    Mapped(s) =>
      LET e == reqs[s].error
          m == reqs[s].got[1]
          noRows == \/ \E i \in 1..Len(e.message) - 1 :
                         e.message[i] = "rows" /\ e.message[i + 1] = "returned"
                    \/ \E i \in 1..Len(e.details) - 1 :
                         e.details[i] = "0" /\ e.details[i + 1] = "rows"
      IN  CASE e.code \in ObjectPrototypeKeys -> "statusCode" \notin DOMAIN m
            [] e.code = "42P01" -> m.statusCode = 403
            [] e.code \in KnownCodes \ {"42P01"} -> m.statusCode = ClaimedStatus(e.code)
            [] OTHER -> m = IF noRows THEN [message |-> "Record not found", statusCode |-> 404]
                            ELSE Unexpected

C27_Witness ==
  \E s \in Slots :
    /\ Mapped(s)
    /\ reqs[s].error.code = "XX000"
    /\ reqs[s].error.message = <<"rows", "returned">>
    /\ reqs[s].got[1].statusCode = 404

(***************************************************************************)
(* Reads: GET /education (and the two services shaped like it),            *)
(* GET /documents and GET /profile.  No action of this specification       *)
(* writes to the store, so no write lies between any two of its requests.  *)
(***************************************************************************)
ReadOk(r, data) == Respond(r, Json(200, TRUE, "", "", "") @@ [data |-> data])

\* getForUser, after getJobSeekerProfileId: return this.getByJobSeekerId(...).
ListForOwner(s) ==
  /\ reqs[s].pc = "list"
  /\ \E f \in ReadFaults :
       LET r == Remember(Read(Call(reqs[s], "select", TableOf(reqs[s].op.res)), f),
                         Got(f, {}))
       IN Put(s, ReadOk(r, getByJobSeekerId(TableOf(r.op.res), r.ownerId, f)))
  /\ UNCHANGED <<nodeEnv, jwtSecret, db, nextId, started>>

\* DocumentService.list: the caller's rows, or DatabaseError when the read fails.
DocumentList(s) ==
  /\ reqs[s].pc = "doc_list"
  /\ \E f \in ReadFaults :
       LET r == Remember(Read(Call(reqs[s], "select", "profile_documents"), f), Got(f, {}))
       IN IF f # NoError
          THEN Put(s, Throw([r EXCEPT !.error = f], DatabaseError,
                            mapSupabaseError(StoreError(f)).message))
          ELSE Put(s, ReadOk(r, {d \in db["profile_documents"] : d.user_id = r.user}))
  /\ UNCHANGED <<nodeEnv, jwtSecret, db, nextId, started>>

\* ProfileController.getCurrentProfile over ProfileService.getByUserId: the
\* row, or data: null ({} here) with a message when the service answers null.
NoProfileBody == Json(200, TRUE, "", "", "No profile found for this user") @@ [data |-> {}]

CurrentProfileGet(s) ==
  /\ reqs[s].pc = "profile_get"
  /\ \E f \in ReadFaults :
       LET r == Remember(Read(Call(reqs[s], "select", TableOf(reqs[s].op.res)), f), Got(f, {}))
           profile == getByUserId(TableOf(r.op.res), r.user, f)
       IN IF profile = {}
          THEN Put(s, Respond(r, NoProfileBody))
          ELSE Put(s, ReadOk(r, profile))
  /\ UNCHANGED <<nodeEnv, jwtSecret, db, nextId, started>>

ReadOps == {Op(k, "list") : k \in Kinds \cup {"document"}} \cup {Op("job_seeker", "get")}

OwnedRow(id, owner, user) == [id |-> id, job_seeker_id |-> owner, user_id |-> user, data |-> "v0"]

\* u1 has profile 1 and may hold an entry of each kind and a document; u2 has
\* no profile; profile 2's entries belong to somebody else.
InitRead ==
  /\ InitCommon
  /\ jwtSecret = TRUE
  /\ \E own \in BOOLEAN :
       db = [t \in Tables |->
               IF t = "job_seekers" THEN {Profile(1, "u1")}
               ELSE IF t \in {TableOf(k) : k \in Kinds \cup {"document"}}
               THEN {OwnedRow(11, 2, "u3")} \cup (IF own THEN {OwnedRow(10, 1, "u1")} ELSE {})
               ELSE {}]

NextRead ==
  \E s \in Slots :
    \/ \E op \in ReadOps, h \in ValidHeaders : Arrive(s, op, h, TRUE, 0, <<>>)
    \/ ResolveOwner(s)
    \/ ListForOwner(s)
    \/ DocumentList(s)
    \/ CurrentProfileGet(s)

SpecRead == InitRead /\ [][NextRead]_vars

\* The read that fetches the data, the last a request issues, has failed.
DataReadFailed(r) == r.got # <<>> /\ r.got[Len(r.got)].failed
ListDone(s) == reqs[s].pc = "done" /\ reqs[s].op.act = "list" /\ reqs[s].got # <<>>

\* C26: a list-for-owner read whose persistence read fails answers the empty
\* sequence and the error is not propagated, for every resource kind.
C26_FailedListIsEmpty ==
  \A s \in Slots :
    ListDone(s) /\ DataReadFailed(reqs[s])
      => reqs[s].resp.status = 200 /\ reqs[s].resp.data = {}

\* Two answered requests of the same caller for the same resource.
SameGet(s, t) ==
  /\ s # t
  /\ reqs[s].pc = "done" /\ reqs[t].pc = "done"
  /\ reqs[s].op = reqs[t].op
  /\ reqs[s].user = reqs[t].user /\ reqs[s].user # NoUser

\* What the store holds for the caller of a read.
StoredFor(r) ==
  CASE r.op.res \in Kinds ->
         {x \in db[TableOf(r.op.res)] :
            \E p \in db["job_seekers"] : p.user_id = r.user /\ x.job_seeker_id = p.id}
    [] r.op.res = "document" -> {d \in db["profile_documents"] : d.user_id = r.user}
    [] OTHER -> {p \in db[TableOf(r.op.res)] : p.user_id = r.user}

MaxPage == 2
MaxLimit == 2
NoCategory == ""
Categories == {"Nursing", "Pharmacy"}
CategoryFilters == {NoCategory, "Nursing", "All Categories"}
JobFilters == [category : CategoryFilters, page : 1..MaxPage, limit : 1..MaxLimit]

Posting(id, status, category) ==
  [id |-> id, employer_id |-> 2, status |-> status, category |-> category, data |-> "v0"]

\* The filter that takes 'All Categories' for a category like any other.
categoryAppliesAlways(category) == category # NoCategory

\* if (filters.category && filters.category !== 'All Categories')
categoryApplies(category) == category # NoCategory /\ category # "All Categories"

\* .eq('status', 'active') and the category filter.
Matching(filters) ==
  {j \in db["jobs"] :
     /\ j.status = "active"
     /\ categoryApplies(filters.category) => j.category = filters.category}

\* .order('posted_date', { ascending: false }).range(offset, offset + limit - 1);
\* a later posting has the greater id.
PageOf(rows, page, limit) ==
  LET offset == (page - 1) * limit
      before(j) == Cardinality({k \in rows : k.id > j.id})
  IN {j \in rows : before(j) >= offset /\ before(j) <= offset + limit - 1}

\* Math.ceil(total / limit)
Ceil(total, limit) == (total + limit - 1) \div limit

getPublicJobs(filters) ==
  LET total == Cardinality(Matching(filters))
  IN [data |-> PageOf(Matching(filters), filters.page, filters.limit),
      pagination |-> [page |-> filters.page, limit |-> filters.limit, total |-> total,
                      totalPages |-> Ceil(total, filters.limit)]]

\* The controller up to the await: the query is parsed, nothing else is read.
GetPublicJobs(s, header, valid, filters) ==
  /\ s = FreeSlot
  /\ started < MaxRequests
  /\ started' = started + 1
  /\ LET r == [IdleReq EXCEPT !.op = Op("job", "list"), !.header = header, !.valid = valid,
                              !.val = filters, !.controllerRan = TRUE]
     IN IF ~valid
        THEN Put(s, Throw(r, ValidationError, "Invalid filter parameters"))
        ELSE Put(s, [r EXCEPT !.pc = "jobs_query"])
  /\ UNCHANGED <<nodeEnv, jwtSecret, db, nextId>>

\* const { data, error, count } = await query
JobsQuery(s) ==
  /\ reqs[s].pc = "jobs_query"
  /\ \E f \in ReadFaults :
       LET r == Remember(Read(ServiceCall(reqs[s], "select", "jobs"), f), Got(f, {}))
       IN IF f # NoError
          THEN Put(s, Throw([r EXCEPT !.error = f], DatabaseError, "Failed to fetch jobs"))
          ELSE Put(s, Respond(r, Json(200, TRUE, "", "", "") @@ getPublicJobs(r.val)))
  /\ UNCHANGED <<nodeEnv, jwtSecret, db, nextId, started>>

ListingHeaders == {NoHeader, BearerOf("jwt_badsig")}

InitListing ==
  /\ InitCommon
  /\ jwtSecret = TRUE
  /\ \E extra \in SUBSET {Posting(3, "active", "Nursing"), Posting(5, "active", "Nursing")} :
       db = [EmptyDb EXCEPT !["jobs"] =
               {Posting(1, "active", "Nursing"), Posting(2, "active", "Pharmacy"),
                Posting(4, "closed", "Nursing")} \cup extra]

NextListing ==
  \/ \E s \in Slots, h \in ListingHeaders, valid \in BOOLEAN, q \in JobFilters :
       FreeSlots = Slots /\ GetPublicJobs(s, h, valid, q)
  \/ \E s \in Slots : JobsQuery(s)

SpecListing == InitListing /\ [][NextListing]_vars

ListingDone(s) == reqs[s].pc = "done" /\ reqs[s].op = Op("job", "list")
Filtered(s) == ListingDone(s) /\ reqs[s].valid /\ reqs[s].val.category # NoCategory

ProfileExisting(s) ==
  /\ reqs[s].pc = "existing"
  /\ \E f \in ReadFaults :
       LET r == Read(Call(reqs[s], "select", TableOf(reqs[s].op.res)), f)
           existing == getByUserId(TableOf(r.op.res), r.user, f)
       IN IF existing = {}
          THEN Put(s, Throw(r, NotFoundError, "Profile not found"))
          ELSE Put(s, [r EXCEPT !.ownerId = (CHOOSE p \in existing : TRUE).id,
                                !.pc = "profile_write"])
  /\ UNCHANGED <<nodeEnv, jwtSecret, db, nextId, started>>

\* .update(...) / .delete() with .eq('id', existing.id).eq('user_id', userId);
\* the update ends in .select().single(), which is an error when no row is left.
ProfileWrite(s) ==
  /\ reqs[s].pc = "profile_write"
  /\ \E f \in WriteFaults :
       LET table == TableOf(reqs[s].op.res)
           verb == reqs[s].op.act
           r == Call(reqs[s], verb, table)
           hit == {p \in db[table] : p.id = r.ownerId /\ p.user_id = r.user}
       IN IF f # NoError
          THEN /\ Put(s, Throw([r EXCEPT !.error = f], DatabaseError,
                               mapSupabaseError(StoreError(f)).message))
               /\ UNCHANGED db
          ELSE IF verb = "delete"
          THEN /\ db' = [db EXCEPT ![table] = @ \ hit]
               /\ Put(s, Ok(r, 200))
          ELSE IF hit = {}
          THEN /\ Put(s, Throw([r EXCEPT !.error = "PGRST116"], DatabaseError,
                               mapSupabaseError(StoreError("PGRST116")).message))
               /\ UNCHANGED db
          ELSE /\ db' = [db EXCEPT ![table] =
                           (@ \ hit) \cup {[p EXCEPT !.data = r.val] : p \in hit}]
               /\ Put(s, Ok(r, 200))
  /\ UNCHANGED <<nodeEnv, jwtSecret, nextId, started>>

ProfileWriteOps == {Op(k, a) : k \in ProfileKinds, a \in {"update", "delete"}}

\* u2 has no profile of either kind; u1 and u3 have one of each.
Unprofiled == {"u2"}

InitProfileWrite ==
  /\ InitCommon
  /\ jwtSecret = TRUE
  /\ db = [EmptyDb EXCEPT !["job_seekers"] = {Profile(1, "u1"), Profile(3, "u3")},
                          !["employers"] = {Profile(2, "u1"), Profile(4, "u3")}]

NextProfileWrite ==
  \E s \in Slots :
    \/ \E op \in ProfileWriteOps, h \in ValidHeaders, valid \in BOOLEAN :
         Arrive(s, op, h, valid, 0, <<>>)
    \/ ProfileExisting(s)
    \/ ProfileWrite(s)

SpecProfileWrite == InitProfileWrite /\ [][NextProfileWrite]_vars

ProfileTables == {TableOf(k) : k \in ProfileKinds}
WroteProfile(r) == \E i \in 1..Len(r.calls) : r.calls[i][1] \in {"update", "delete"}

\* C28: a profile row changes or disappears only in a step of an update or
\* delete request whose verified subject is the row's user_id; an update or
\* delete by a subject without a profile is answered NotFound and issues no
\* write.
C28_OnlyOwnerWritesProfile ==
  /\ [][\A t \in ProfileTables : \A p \in db[t] :
          p \notin db'[t] =>
            \E s \in Slots : /\ reqs[s].pc = "profile_write"
                             /\ reqs'[s].pc = "done"
                             /\ reqs[s].op.res \in ProfileKinds
                             /\ TableOf(reqs[s].op.res) = t
                             /\ reqs[s].user = p.user_id]_vars
  /\ [](\A s \in Slots :
          reqs[s].pc = "done" /\ reqs[s].controllerRan /\ reqs[s].valid
            /\ reqs[s].user \in Unprofiled
            => reqs[s].resp.status = 404 /\ ~WroteProfile(reqs[s]))

C28_Witness ==
  /\ Profile(1, "u1") \notin db["job_seekers"]
  /\ \E s \in Slots : reqs[s].pc = "done" /\ reqs[s].user = "u1" /\ reqs[s].resp.status = 200
  /\ \E s \in Slots : reqs[s].pc = "done" /\ reqs[s].user = "u2" /\ reqs[s].resp.status = 404

(***************************************************************************)
(* ApplicationService.updateStatus (act "update") and withdraw (act        *)
(* "delete"): verifyEmployerOwnership / verifyJobSeekerOwnership, then the *)
(* write by id.                                                            *)
(***************************************************************************)
isNotFoundError(error) ==
  \/ error.code = "PGRST116"
  \/ includes(error.message, <<"rows", "returned">>)
  \/ includes(error.details, <<"0", "rows">>)

\* The application with the row its !inner join brings along: the job
\* seeker's user_id for withdraw, the user_id of the job's employer for
\* updateStatus.  No row when the application or the joined row is missing.
JoinedUsers(d, act, a) ==
  IF act = "delete"
  THEN {p.user_id : p \in {q \in d["job_seekers"] : q.id = a.job_seeker_id}}
  ELSE {e.user_id : e \in {q \in d["employers"] :
           \E j \in d["jobs"] : j.id = a.job_id /\ j.employer_id = q.id}}

Joined(d, act, applicationId) ==
  UNION {{[application |-> a, user_id |-> u] : u \in JoinedUsers(d, act, a)} :
           a \in {x \in d["applications"] : x.id = applicationId}}

ownsApplicationAlways(joinedUserId, userId) == TRUE

\* application.job_seekers.user_id !== userId / application.jobs.employers.user_id !== userId
ownsApplication(joinedUserId, userId) == joinedUserId = userId

ApplicationVerify(s) ==
  /\ reqs[s].pc = "verify"
  /\ \E f \in ReadFaults :
       LET r == Read(Call(reqs[s], "select", "applications"), f)
           found == Joined(db, r.op.act, r.target)
           error == IF f # NoError THEN f ELSE IF Cardinality(found) # 1 THEN "PGRST116"
                    ELSE NoError
       IN IF error # NoError
          THEN IF isNotFoundError(StoreError(error))
               THEN Put(s, Throw([r EXCEPT !.error = error], NotFoundError,
                                 "Application not found"))
               ELSE Put(s, Throw([r EXCEPT !.error = error], DatabaseError,
                                 "Failed to fetch application"))
          ELSE IF ~ownsApplication((CHOOSE x \in found : TRUE).user_id, r.user)
          THEN Put(s, Throw(r, ForbiddenError,
                            "You do not have permission to access this application"))
          ELSE Put(s, [r EXCEPT !.pc = "app_write"])
  /\ UNCHANGED <<nodeEnv, jwtSecret, db, nextId, started>>

\* .update({status, notes, updated_at}).eq('id', applicationId).select().single()
\* / .delete().eq('id', applicationId)
ApplicationWrite(s) ==
  /\ reqs[s].pc = "app_write"
  /\ \E f \in WriteFaults :
       LET verb == reqs[s].op.act
           r == Call(reqs[s], verb, "applications")
           hit == {a \in db["applications"] : a.id = r.target}
       IN IF f # NoError
          THEN /\ Put(s, Throw([r EXCEPT !.error = f], DatabaseError,
                               mapSupabaseError(StoreError(f)).message))
               /\ UNCHANGED db
          ELSE IF verb = "delete"
          THEN /\ db' = [db EXCEPT !["applications"] = @ \ hit]
               /\ Put(s, Ok(r, 200))
          ELSE IF hit = {}
          THEN /\ Put(s, Throw([r EXCEPT !.error = "PGRST116"], DatabaseError,
                               mapSupabaseError(StoreError("PGRST116")).message))
               /\ UNCHANGED db
          ELSE /\ db' = [db EXCEPT !["applications"] =
                           (@ \ hit) \cup {[a EXCEPT !.status = r.val, !.data = r.val] : a \in hit}]
               /\ Put(s, Ok(r, 200))
  /\ UNCHANGED <<nodeEnv, jwtSecret, nextId, started>>

ApplicationWriteOps == {Op("application", a) : a \in {"update", "delete"}}
ApplicationRow(id, job, seeker) ==
  [id |-> id, job_id |-> job, job_seeker_id |-> seeker, status |-> "applied", data |-> "v0"]
ApplicationIds == {0, 50, 51}

\* u1 is job seeker 1, u2 is employer 2 with job 1, u3 is job seeker 3 and
\* employer 4 with job 9.  Application 50 is u1's to u2's job, application 51
\* is u3's to u3's job; no application has id 0.
ApplicationDb ==
  [EmptyDb EXCEPT !["job_seekers"] = {Profile(1, "u1"), Profile(3, "u3")},
                  !["employers"] = {Profile(2, "u2"), Profile(4, "u3")},
                  !["jobs"] = {Job(1, 2), Job(9, 4)},
                  !["applications"] = {ApplicationRow(50, 1, 1), ApplicationRow(51, 9, 3)}]

InitApplication == InitCommon /\ jwtSecret = TRUE /\ db = ApplicationDb

NextApplication ==
  \E s \in Slots :
    \/ \E op \in ApplicationWriteOps, h \in ValidHeaders, valid \in BOOLEAN,
          id \in ApplicationIds : Arrive(s, op, h, valid, id, <<>>)
    \/ ApplicationVerify(s)
    \/ ApplicationWrite(s)

SpecApplication == InitApplication /\ [][NextApplication]_vars

\* The user the claim entitles to an operation on an application: the
\* employer of its job for updateStatus, its job seeker for withdraw.
EntitledUsers(act, applicationId) ==
  {x.user_id : x \in Joined(ApplicationDb, act, applicationId)}

WroteApplication(r) == \E i \in 1..Len(r.calls) : r.calls[i][1] \in {"update", "delete"}
Intruder(s) ==
  /\ reqs[s].pc = "done" /\ reqs[s].controllerRan
  /\ reqs[s].op \in ApplicationWriteOps
  /\ reqs[s].op.act = "update" => reqs[s].valid
  /\ reqs[s].user \notin EntitledUsers(reqs[s].op.act, reqs[s].target)

\* C29 as claimed: a caller who is not entitled is answered Forbidden, or
\* NotFound when the application is absent, and has written nothing.
C29_Claimed ==
  \A s \in Slots :
    Intruder(s) => reqs[s].resp.status \in {403, 404} /\ ~WroteApplication(reqs[s])

\* C29 amended: an application row changes only in the write step of an
\* updateStatus request of the user owning the employer profile of its job,
\* and disappears only in the write step of a withdraw request of the user
\* owning its job-seeker profile; every write call follows the request's
\* ownership read; a caller not entitled writes nothing and is answered
\* 403, 404 when the application is absent, or 500 when the ownership read
\* fails.  (An application withdrawn in the meantime is absent or not,
\* depending on when the ownership read ran.)
C29_OnlyEntitledWrite ==
  /\ [][\A a \in db["applications"] :
          a \notin db'["applications"] =>
            \E s \in Slots :
              /\ reqs[s].pc = "app_write" /\ reqs'[s].pc = "done"
              /\ reqs[s].target = a.id
              /\ reqs[s].user \in EntitledUsers(reqs[s].op.act, a.id)
              /\ reqs[s].op.act = IF \E b \in db'["applications"] : b.id = a.id
                                  THEN "update" ELSE "delete"]_vars
  /\ [](\A s \in Slots :
          /\ \A i \in 1..Len(reqs[s].calls) :
                reqs[s].calls[i][1] \in {"update", "delete"}
                  => i > 1 /\ reqs[s].calls[i - 1][1] = "select"
          /\ Intruder(s) =>
                /\ ~WroteApplication(reqs[s])
                /\ reqs[s].resp.status \in
                     IF reqs[s].readErr THEN {500}
                     ELSE IF \E a \in db["applications"] : a.id = reqs[s].target
                     THEN {403}
                     ELSE IF \E a \in ApplicationDb["applications"] : a.id = reqs[s].target
                     THEN {403, 404}
                     ELSE {404})

C29_Witness ==
  /\ \E a \in db["applications"] : a.id = 51 /\ a.status = "applied"
  /\ ~\E a \in db["applications"] : a.id = 50
  /\ \E s \in Slots : Intruder(s) /\ reqs[s].target = 51 /\ reqs[s].resp.status = 403

(***************************************************************************)
(* JobService.create, update and incrementViewCount by the employer of     *)
(* job 1, with the child lists spelled out.  Requests arrive one at a      *)
(* time, so nothing is written between a request's writes and its answer.  *)
(***************************************************************************)
RequirementLists ==
  {<<>>, <<<<SP, "a">>>>, <<<<"a", SP>>, <<"b">>>>, <<<<"a", SP, "b">>>>}
BenefitLists == {<<<<"b", SP>>>>}

\* The payloads: requirements omitted or one of the lists, then benefits and
\* tags omitted or given.
Payloads ==
  {rq \o bn \o tg :
     rq \in {<<>>} \cup {<<Kid("job_requirements", R)>> : R \in RequirementLists},
     bn \in {<<>>} \cup {<<Kid("job_benefits", B)>> : B \in BenefitLists},
     tg \in {<<>>} \cup {<<Kid("job_tags", B)>> : B \in BenefitLists}}

\* POST /:jobId/view is registered without authenticateJWT.
ViewJob(s, header, jobId) ==
  /\ s = FreeSlot
  /\ started < MaxRequests
  /\ started' = started + 1
  /\ Put(s, [IdleReq EXCEPT !.op = Op("job", "view"), !.header = header, !.target = jobId,
                             !.controllerRan = TRUE, !.pc = "increment"])
  /\ UNCHANGED <<nodeEnv, jwtSecret, db, nextId>>

\* supabase.rpc('increment', {row_id, table_name: 'jobs', column_name:
\* 'views_count'}); an error is logged and the controller answers 200.
IncrementViewCount(s) ==
  /\ reqs[s].pc = "increment"
  /\ \E f \in WriteFaults :
       LET r == ServiceCall(reqs[s], "rpc", "jobs")
           hit == {j \in db["jobs"] : j.id = r.target /\ "views_count" \in DOMAIN j}
       IN /\ db' = IF f # NoError THEN db
                   ELSE [db EXCEPT !["jobs"] =
                           (@ \ hit) \cup {[j EXCEPT !.views_count = @ + 1] : j \in hit}]
          /\ Put(s, Ok(r, 200))
  /\ UNCHANGED <<nodeEnv, jwtSecret, nextId, started>>

\* u1 is employer 1 with job 1, which has one row in each child table; job 9
\* is somebody else's.
InitJobLists ==
  /\ InitCommon
  /\ jwtSecret = TRUE
  /\ db = [t \in Tables |->
             IF t = "employers" THEN {Profile(1, "u1")}
             ELSE IF t = "jobs" THEN {Job(1, 1) @@ [views_count |-> 0], Job(9, 4) @@ [views_count |-> 0]}
             ELSE IF t \in ChildTables
             THEN {[job_id |-> 1, data |-> <<"v0">>], [job_id |-> 9, data |-> <<"v0">>]}
             ELSE {}]

NextJobLists ==
  \E s \in Slots :
    \/ \E op \in {Op("job", "create"), Op("job", "update")}, k \in Payloads :
         FreeSlots = Slots /\ Arrive(s, op, BearerOf("jwt_u1"), TRUE, 1, k)
    \/ \E h \in {NoHeader, BearerOf("jwt_u1")}, id \in TargetIds :
         FreeSlots = Slots /\ ViewJob(s, h, id)
    \/ ResolveOwner(s)
    \/ Insert(s)
    \/ JobFetch(s)
    \/ JobWrite(s)
    \/ KidDelete(s)
    \/ KidInsert(s)
    \/ Refetch(s)
    \/ IncrementViewCount(s)

SpecJobLists == InitJobLists /\ [][NextJobLists]_vars

\* The request's write of the jobs row was followed by further calls: it succeeded.
PastParent(r) ==
  \E i \in 1..(Len(r.calls) - 1) :
    r.calls[i][1] \in {"insert", "update"} /\ r.calls[i][2] = "jobs"

ChildRowsOf(table, jobId) == {x \in db[table] : x.job_id = jobId}

\* C25: once the insert or update of the jobs row has succeeded, the request
\* is answered 201 (create) or 200 (update) whatever becomes of the writes to
\* the child tables, and no later step of the request touches the jobs
\* table; a view-counter increment is answered 200 whether or not the
\* increment failed.
C25_ChildFailuresTolerated ==
  /\ [](\A s \in Slots :
          reqs[s].pc = "done" =>
            /\ reqs[s].op \in {Op("job", "create"), Op("job", "update")} /\ PastParent(reqs[s])
                 => reqs[s].resp.status = IF reqs[s].op.act = "create" THEN 201 ELSE 200
            /\ reqs[s].op = Op("job", "view") => reqs[s].resp.status = 200)
  /\ [][\A s \in Slots :
          reqs[s].pc \in {"kid_delete", "kid_insert", "refetch"} => db'["jobs"] = db["jobs"]]_vars

\* An update that supplied requirements, whose insert of them failed after
\* the delete had succeeded, answered 200 with the jobs row updated.
C25_Witness ==
  \E s \in Slots :
    /\ reqs[s].pc = "done" /\ reqs[s].op = Op("job", "update")
    /\ reqs[s].resp.status = 200
    /\ \E i \in 1..Len(reqs[s].calls) : reqs[s].calls[i][1] = "insert"
                                        /\ reqs[s].calls[i][2] = "job_requirements"
    /\ ChildRowsOf("job_requirements", 1) = {}
    /\ \E j \in db["jobs"] : j.id = 1 /\ j.data = "v1"

\* y is x without the spaces at its two ends.
IsTrimOf(y, x) ==
  /\ y = <<>> \/ (y[1] # SP /\ y[Len(y)] # SP)
  /\ \E i \in 1..(Len(x) + 1), j \in 0..Len(x) :
       /\ y = SubSeq(x, i, j)
       /\ \A k \in 1..Len(x) : (k < i \/ k > j) => x[k] = SP

\* rows holds one row of the job for each element of R, trimmed, and no other.
HoldsTrimmed(rows, jobId, R) ==
  /\ \A x \in rows : x.job_id = jobId /\ \E i \in 1..Len(R) : IsTrimOf(x.data, R[i])
  /\ \A i \in 1..Len(R) : \E x \in rows : IsTrimOf(x.data, R[i])

\* The request in slot s performs a write of a child list in this step.
ChildStep(s) == reqs[s].pc \in {"kid_delete", "kid_insert"} /\ reqs'[s] # reqs[s]
WritesList(s) == reqs[s].op = Op("job", "update") /\ ChildStep(s)

\* The write that completes the list: the insert, or the delete of an empty list.
CompletesList(s) ==
  WritesList(s) /\ (reqs[s].pc = "kid_insert" \/ Head(reqs[s].kids).items = <<>>)

\* C30 as claimed: when an update has written a list R it was given, the
\* job's stored rows of that list are exactly the trimmed elements of R.
\* Requests arrive one at a time and every update past its jobs write is
\* answered 200, so what is stored then is what is stored at its return.
C30_Claimed ==
  [][\A s \in Slots :
       CompletesList(s) =>
         LET kid == Head(reqs[s].kids)
         IN HoldsTrimmed({x \in db'[kid.table] : x.job_id = reqs[s].target},
                         reqs[s].target, kid.items)]_vars

\* C30 amended: an update writes a list it was given by a delete of the job's
\* rows of that list and, when the list is not empty, an insert of its
\* trimmed elements.  Each of the two writes either takes effect in full or
\* fails and leaves the table as it was; rows of other jobs and tables of
\* lists not given are never written.  So the stored list is the trimmed R
\* when both writes took effect, R beside the old rows when the delete
\* failed, and empty when only the insert failed.
C30_ListsReplacedUnlessWriteFails ==
  [][/\ \A s \in Slots :
          WritesList(s) =>
            LET kid == Head(reqs[s].kids)
                t == kid.table
                mine == {x \in db[t] : x.job_id = reqs[s].target}
            IN /\ \A u \in Tables \ {t} : db'[u] = db[u]
               /\ \/ db'[t] = db[t]
                  \/ reqs[s].pc = "kid_delete" /\ db'[t] = db[t] \ mine
                  \/ /\ reqs[s].pc = "kid_insert"
                     /\ db[t] \subseteq db'[t]
                     /\ \A x \in db'[t] \ db[t] :
                          /\ x.job_id = reqs[s].target
                          /\ \E i \in 1..Len(kid.items) : IsTrimOf(x.data, kid.items[i])
                     /\ \A i \in 1..Len(kid.items) :
                          \E x \in db'[t] : /\ x.job_id = reqs[s].target
                                            /\ IsTrimOf(x.data, kid.items[i])
                     /\ mine = {} =>
                          HoldsTrimmed({x \in db'[t] : x.job_id = reqs[s].target},
                                       reqs[s].target, kid.items)
     /\ \A t \in ChildTables :
          db'[t] # db[t] => \E s \in Slots : ChildStep(s) /\ Head(reqs[s].kids).table = t]_vars

\* An update given requirements ["a ", "b"] and no benefits has returned 200;
\* the job's requirements are a and b, its benefits are as they were.
C30_Witness ==
  \E s \in Slots :
    /\ reqs[s].pc = "done" /\ reqs[s].op = Op("job", "update") /\ reqs[s].resp.status = 200
    /\ ~\E i \in 1..Len(reqs[s].calls) : reqs[s].calls[i][2] = "job_benefits"
    /\ ChildRowsOf("job_requirements", 1) =
         {[job_id |-> 1, data |-> <<"a">>], [job_id |-> 1, data |-> <<"b">>]}
    /\ ChildRowsOf("job_benefits", 1) = {[job_id |-> 1, data |-> <<"v0">>]}

(***************************************************************************)
(* The order of the steps of a write to education, experience and          *)
(* certification entries, read off the store calls a request has issued.   *)
(***************************************************************************)
WriteCalls(r) == {i \in 1..Len(r.calls) : r.calls[i][1] \in {"insert", "update", "delete"}}

Ran(handler, sends, nexts) == [handler |-> handler, sends |-> sends, nexts |-> nexts]

NotThrown == [class |-> ""]

\* new XError(message), as errorHandler sees it.
AppErrorOf(e, message) ==
  [class |-> "AppError", name |-> e.name, statusCode |-> e.statusCode, code |-> e.code,
   message |-> message]

\* if (!authHeader) next(); else authenticateJWT(req, res, next)
optionalAuth(header, secret) ==
  IF ~header.present \/ header.value = <<>>
  THEN AuthResult(NoResp, NoUser, NoToken, TRUE)
  ELSE authenticateJWT(header, secret)

\* The handlers a route registers, after the chain of createApp.
Chains == {<<>>, <<"live">>, <<"authenticateJWT", "updateJob">>}

RouteOf(chain) ==
  IF chain = <<>> THEN "/api/unknown-route"
  ELSE IF chain = <<"live">> THEN "/api/health/live"
  ELSE "/api/v1/jobs/1"

RespondHeaders == PipeHeaders \cup {[present |-> TRUE, value |-> <<"jwt_u1">>]}

\* What JobService.update ends with: the job, or the error it throws.
JobUpdateOutcomes ==
  {NotThrown,
   AppErrorOf(NotFoundError, "Employer profile not found"),
   AppErrorOf(NotFoundError, "Job not found"),
   AppErrorOf(ForbiddenError, "You do not have permission to update this job"),
   AppErrorOf(DatabaseError, "An unexpected error occurred")}

IdleTurn ==
  [pc |-> "idle", route |-> "", chain |-> <<>>, header |-> NoHeader, body |-> "parseable",
   valid |-> TRUE, hits |-> 0, correlationId |-> "", user |-> NoUser,
   accessToken |-> NoToken, error |-> NotThrown, trail |-> <<>>, sent |-> 0,
   resp |-> NotSent]

\* A handler returned after sending resp (if sends > 0) and calling next
\* (nexts > 0) with error, or with none.  Without next nothing more runs.
After(r, handler, sends, nexts, error, resp) ==
  [r EXCEPT !.trail = Append(@, Ran(handler, sends, nexts)),
            !.sent = @ + sends,
            !.resp = IF sends > 0 THEN resp ELSE @,
            !.error = IF nexts > 0 THEN error ELSE @,
            !.chain = IF nexts > 0 /\ error = NotThrown /\ handler \in {"authenticateJWT", "updateJob", "live"}
                      THEN Tail(@) ELSE @,
            !.pc = IF nexts = 0 THEN "done"
                   ELSE IF error # NotThrown THEN "errorHandler"
                   ELSE IF handler \in {"correlationId", "generalRateLimiter", "express.json"}
                   THEN (IF r.chain = <<>> THEN "notFoundHandler" ELSE "handler")
                   ELSE IF Len(r.chain) > 1 THEN "handler" ELSE "notFoundHandler"]

Sends(r, handler, resp) == After(r, handler, 1, 0, NotThrown, resp)
Nexts(r, handler) == After(r, handler, 0, 1, NotThrown, NotSent)
NextsWith(r, handler, error) == After(r, handler, 0, 1, error, NotSent)

\* A request is received: correlationId, generalRateLimiter and express.json.
Accept(s, chain, header, body, valid, uuid) ==
  /\ s = FreeSlot
  /\ started <= RateLimitGeneral
  /\ started' = started + 1
  /\ LET r0 == [IdleTurn EXCEPT !.route = RouteOf(chain), !.chain = chain, !.header = header,
                                !.body = body, !.valid = valid, !.hits = started + 1,
                                !.correlationId = uuid]
         r1 == Nexts(r0, "correlationId")
     IN IF rateLimited(r1.hits, RateLimitGeneral)
        THEN Put(s, Sends(r1, "generalRateLimiter", Send(429, TooManyRequests)))
        ELSE LET r2 == Nexts(r1, "generalRateLimiter")
             IN IF body = "malformed"
                THEN Put(s, NextsWith(r2, "express.json", SyntaxError))
                ELSE Put(s, Nexts(r2, "express.json"))
  /\ UNCHANGED <<nodeEnv, jwtSecret, db, nextId>>

\* GET /health/live
Live(s) ==
  /\ reqs[s].pc = "handler" /\ Head(reqs[s].chain) = "live"
  /\ Put(s, Sends(reqs[s], "live", Send(200, [status |-> "alive", timestamp |-> "now"])))
  /\ UNCHANGED <<nodeEnv, jwtSecret, db, nextId, started>>

\* authenticateJWT as a handler of the chain.
Authenticate(s) ==
  /\ reqs[s].pc = "handler" /\ Head(reqs[s].chain) = "authenticateJWT"
  /\ LET a == authenticateJWT(reqs[s].header, jwtSecret)
         r == [reqs[s] EXCEPT !.user = a.user, !.accessToken = a.accessToken]
     IN Put(s, After(r, "authenticateJWT", IF a.resp.sent THEN 1 ELSE 0,
                     IF a.nextCalled THEN 1 ELSE 0, NotThrown,
                     Send(a.resp.status, BodyOf(a.resp))))
  /\ UNCHANGED <<nodeEnv, jwtSecret, db, nextId, started>>

\* JobController.updateJob up to the await of JobService.update.
UpdateJob(s) ==
  /\ reqs[s].pc = "handler" /\ Head(reqs[s].chain) = "updateJob"
  /\ LET r == reqs[s] IN
     IF r.user = NoUser \/ r.accessToken = NoToken
     THEN Put(s, NextsWith(r, "updateJob", AppErrorOf(UnauthorizedError, "Authentication required")))
     ELSE IF ~r.valid
     THEN Put(s, NextsWith(r, "updateJob", AppErrorOf(ValidationError, "Invalid job data")))
     ELSE Put(s, [r EXCEPT !.pc = "service"])
  /\ UNCHANGED <<nodeEnv, jwtSecret, db, nextId, started>>

\* JobController.updateJob after the await: the answer, or the catch.
UpdateJobSettled(s) ==
  /\ reqs[s].pc = "service"
  /\ \E outcome \in JobUpdateOutcomes :
       IF outcome = NotThrown
       THEN Put(s, Sends(reqs[s], "updateJob",
                         Send(200, [success |-> TRUE, data |-> "job",
                                    message |-> "Job updated successfully"])))
       ELSE Put(s, NextsWith(reqs[s], "updateJob", outcome))
  /\ UNCHANGED <<nodeEnv, jwtSecret, db, nextId, started>>

\* errorHandler as the last handler of the chain.
ErrorHandler(s) ==
  /\ reqs[s].pc = "errorHandler"
  /\ Put(s, Sends(reqs[s], "errorHandler",
                  errorHandlerResponse(reqs[s].error, reqs[s].correlationId, nodeEnv)))
  /\ UNCHANGED <<nodeEnv, jwtSecret, db, nextId, started>>

\* notFoundHandler, for a request no route answered.
NotFound(s) ==
  /\ reqs[s].pc = "notFoundHandler"
  /\ Put(s, Sends(reqs[s], "notFoundHandler", notFoundHandler(reqs[s])))
  /\ UNCHANGED <<nodeEnv, jwtSecret, db, nextId, started>>

InitRespond ==
  /\ nodeEnv \in NodeEnvs
  /\ jwtSecret \in BOOLEAN
  /\ db = [EmptyDb EXCEPT !["employers"] = {Profile(1, "u1")}]
  /\ nextId = 100
  /\ reqs = [s \in Slots |-> IdleTurn]
  /\ started = 0

\* The handlers of a request in flight.
Handle(s) ==
  \/ Live(s)
  \/ Authenticate(s)
  \/ UpdateJob(s)
  \/ UpdateJobSettled(s)
  \/ ErrorHandler(s)
  \/ NotFound(s)

NextRespond ==
  \E s \in Slots :
    \/ \E chain \in Chains, header \in RespondHeaders, body \in Bodies, valid \in BOOLEAN,
          uuid \in UUIDs :
         FreeSlots = Slots /\ Accept(s, chain, header, body, valid, uuid)
    \/ Handle(s)

\* The event loop runs every handler that is due, and every call of the store
\* settles: a request in flight is not left waiting for ever.
SpecRespond == InitRespond /\ [][NextRespond]_vars /\ WF_vars(\E s \in Slots : Handle(s))

====
